---- MODULE Spec2Model ----
(***************************************************************************)
(* The protest dashboard of src/app.py: the dataset loaded at process      *)
(* start, the memoized filter_data, jitter_coords,                         *)
(* aggregate_events_for_map and the update_all callback that turns the     *)
(* filter widgets' values into the map, the chart series, the table rows   *)
(* and the KPIs.                                                           *)
(*                                                                         *)
(* Encoding.  A string is a tuple of one-character strings, so that        *)
(* lower(), strip(), split(',') and substring search are computed and not  *)
(* assumed.  A cell, of the source file or of a data frame, is a record    *)
(* [k, n, s]: k = "empty" (NaN, NaT, no value), "num" (the number or the   *)
(* date n; in the file, text that parses as n) or "text" (any other text   *)
(* s).  A calendar date is the number of its day, 1..MaxDay, all in one    *)
(* month.  A coordinate is an integer number of 1e-6 degrees, one digit    *)
(* more than jitter_coords rounds to.                                      *)
(***************************************************************************)
EXTENDS Integers, Sequences, FiniteSets, TLC

VARIABLES
    csv,        \* the rows of the source file, in file order
    df,         \* the process-wide data frame loaded from it
    cache,      \* the memoization cache, oldest first: the entries [key,
                \* value] of filter_data, each with the entry agg that
                \* aggregate_events_for_map stored in the same request
    inputs,     \* the values of the filter widgets
    dff,        \* the frame filter_data returned to the latest update_all
    out,        \* the outputs of the latest update_all
    st_page,    \* what the latest run of the script src/app_streamlit.py drew
    reqs,       \* the update_all requests the server threads are running
    columns,    \* the names of the columns of df
    city_options,   \* the options of the city dropdown
    download,   \* what the latest click on the download button sent
    details,    \* the event details panel
    tab,        \* the selected tab
    link_store, \* the data of the store show-missing-link-store
    n_clicks,   \* the clicks on the link of each tab
    pending,    \* the callbacks a change of the tab has started
    missing_msg,    \* the message on events missing participant counts
    threshold,  \* the row of the 3.5% check
    manual_csv, \* the lines of manual_submissions.csv
    subs        \* the submit_event calls the server threads are running

vars == <<csv, df, cache, inputs, dff, out, st_page, reqs, columns,
          city_options, download, details, tab, link_store, n_clicks, pending, missing_msg,
          threshold, manual_csv, subs>>

\* the state beside the data, the cache and the outputs of update_all
side == <<reqs, columns, city_options, download, details, tab, link_store, n_clicks, pending,
            missing_msg, threshold, manual_csv, subs>>

----------------------------------------------------------------------------
(* Bounds of the model *)

MaxRows == 2        \* rows of the source file
MaxDay == 3         \* calendar days 1..MaxDay
MaxCache == 1       \* entries the memoization cache holds at once
MaxSearchLen == 2   \* length of the enumerated organization search strings
MaxJitterRows == 3  \* rows of the source files with coinciding coordinates
MaxSubmissions == 3 \* calls of submit_event
MaxClicks == 2      \* clicks on the link of one tab

----------------------------------------------------------------------------
(* Values *)

NaN == [k |-> "empty", n |-> 0, s |-> <<>>]     \* NaN, NaT, None
Num(n) == [k |-> "num", n |-> n, s |-> <<>>]
Text(s) == [k |-> "text", n |-> 0, s |-> s]

IsNa(c) == c.k = "empty"

NoDate == 0         \* a date widget value of None

----------------------------------------------------------------------------
(* Python string operations *)

UpperAlpha == <<"A","B","C","D","E","F","G","H","I","J","K","L","M",
                "N","O","P","Q","R","S","T","U","V","W","X","Y","Z">>
LowerAlpha == <<"a","b","c","d","e","f","g","h","i","j","k","l","m",
                "n","o","p","q","r","s","t","u","v","w","x","y","z">>

LowerChar(c) ==
    IF \E i \in 1..26 : UpperAlpha[i] = c
    THEN LowerAlpha[CHOOSE i \in 1..26 : UpperAlpha[i] = c]
    ELSE c

\* str.lower()
StrLower(s) == [i \in 1..Len(s) |-> LowerChar(s[i])]

IsSpace(c) == c = " "

\* str.strip(): drop the leading and the trailing whitespace
StrStrip(s) ==
    IF \A i \in 1..Len(s) : IsSpace(s[i]) THEN <<>>
    ELSE LET a == CHOOSE i \in 1..Len(s) :
                      ~IsSpace(s[i]) /\ \A j \in 1..(i-1) : IsSpace(s[j])
             b == CHOOSE i \in 1..Len(s) :
                      ~IsSpace(s[i]) /\ \A j \in (i+1)..Len(s) : IsSpace(s[j])
         IN SubSeq(s, a, b)

\* str.split(','): the pieces between the commas, empty pieces included
RECURSIVE StrSplit(_)
StrSplit(s) ==
    IF \A i \in 1..Len(s) : s[i] # ","
    THEN <<s>>
    ELSE LET c == CHOOSE i \in 1..Len(s) :
                      s[i] = "," /\ \A j \in 1..(i-1) : s[j] # ","
         IN <<SubSeq(s, 1, c-1)>> \o StrSplit(SubSeq(s, c+1, Len(s)))

\* t in s, for Python strings: t occurs in s as a contiguous substring
StrContains(s, t) ==
    \E i \in 1..(Len(s) - Len(t) + 1) : SubSeq(s, i, i + Len(t) - 1) = t

\* str(x) of a text cell: a missing value prints as 'nan'
AsTypeStr(c) == IF IsNa(c) THEN <<"n","a","n">> ELSE c.s

----------------------------------------------------------------------------
(* Dataset load: src/app.py lines 27-50 *)

\* pd.to_datetime / pd.to_numeric with errors='coerce': a number stays, text
\* that does not parse and a missing value become NaT / NaN
ToDatetime(c) == IF c.k = "num" THEN c ELSE NaN
ToNumeric(c) == IF c.k = "num" THEN c ELSE NaN

\* df[col].astype(str).str.lower()
LowerStrColumn(c) == Text(StrLower(AsTypeStr(c)))

\* property_damage.notna() & (property_damage.astype(str).str.strip() != "")
PropertyDamageAny(c) ==
    IF ~IsNa(c) /\ StrStrip(AsTypeStr(c)) # <<>> THEN 1 ELSE 0

\* a load without the loop of lines 39-44: the outcome columns stay as read
LoadRowNoCoerce(r) ==
    [date |-> ToDatetime(r.date),
     size_mean |-> ToNumeric(r.size_mean),
     participants_numeric |-> ToNumeric(r.size_mean),
     organizations |-> LowerStrColumn(r.organizations),
     state |-> r.state,
     resolved_locality |-> r.resolved_locality,
     location |-> r.location,
     locality |-> r.locality,
     title |-> r.title,
     lat |-> r.lat,
     lon |-> r.lon,
     arrests |-> r.arrests,
     participant_injuries |-> r.participant_injuries,
     police_injuries |-> r.police_injuries,
     participant_deaths |-> r.participant_deaths,
     police_deaths |-> r.police_deaths,
     property_damage |-> r.property_damage,
     property_damage_any |-> PropertyDamageAny(r.property_damage)]

LoadRow(r) ==
    [date |-> ToDatetime(r.date),
     size_mean |-> ToNumeric(r.size_mean),
     participants_numeric |-> ToNumeric(r.size_mean),
     organizations |-> LowerStrColumn(r.organizations),
     state |-> r.state,
     resolved_locality |-> r.resolved_locality,
     location |-> r.location,
     locality |-> r.locality,
     title |-> r.title,
     lat |-> r.lat,
     lon |-> r.lon,
     arrests |-> ToNumeric(r.arrests),
     participant_injuries |-> ToNumeric(r.participant_injuries),
     police_injuries |-> ToNumeric(r.police_injuries),
     participant_deaths |-> ToNumeric(r.participant_deaths),
     police_deaths |-> ToNumeric(r.police_deaths),
     property_damage |-> r.property_damage,
     property_damage_any |-> PropertyDamageAny(r.property_damage)]

\* the module-level load: one loaded row per row of the file, in file order
LoadData(file) == [i \in 1..Len(file) |-> LoadRow(file[i])]

----------------------------------------------------------------------------
(* filter_data: src/app.py lines 891-955 *)

\* lines 900-905: dff is the global df, so the assignment writes into df
CoerceRow(r) ==
    [r EXCEPT !.arrests = ToNumeric(@),
              !.participant_injuries = ToNumeric(@),
              !.police_injuries = ToNumeric(@),
              !.participant_deaths = ToNumeric(@),
              !.police_deaths = ToNumeric(@)]

CoerceFrame(d) == [i \in 1..Len(d) |-> CoerceRow(d[i])]

\* a date filter whose end day is excluded
DateMaskExclusive(r, p) ==
    (p.start_date # NoDate /\ p.end_date # NoDate)
        => (~IsNa(r.date) /\ r.date.n >= p.start_date /\ r.date.n < p.end_date)

\* lines 911-912; a comparison with NaT is False
DateMask(r, p) ==
    (p.start_date # NoDate /\ p.end_date # NoDate)
        => (~IsNa(r.date) /\ r.date.n >= p.start_date /\ r.date.n <= p.end_date)

\* lines 915-916; strftime of NaT is NaN, which equals no value
NationalDayMask(r, p) ==
    (p.national_day # NoDate) => (~IsNa(r.date) /\ r.date.n = p.national_day)

\* a size filter without the branch of 'no'
SizeMaskHasOnly(r, p) ==
    CASE p.size_filter = "has" -> ~IsNa(r.size_mean)
      [] OTHER -> TRUE

\* lines 919-922
SizeMask(r, p) ==
    CASE p.size_filter = "has" -> ~IsNa(r.size_mean)
      [] p.size_filter = "no" -> IsNa(r.size_mean)
      [] OTHER -> TRUE

\* line 927: the terms of the search string
OrgTerms(org_search) ==
    LET parts == StrSplit(StrLower(org_search))
    IN {StrStrip(parts[i]) : i \in {j \in 1..Len(parts) : StrStrip(parts[j]) # <<>>}}

\* lines 926-930: the pattern is the alternation of the escaped terms, so
\* str.contains finds it iff some term occurs literally; na=False
OrgMask(r, p) ==
    (p.org_search # <<>> /\ StrStrip(p.org_search) # <<>> /\ OrgTerms(p.org_search) # {})
        => (~IsNa(r.organizations)
            /\ \E t \in OrgTerms(p.org_search) : StrContains(r.organizations.s, t))

\* lines 933-934; isin is False for a missing state
StateMask(r, p) ==
    (p.state_filter # {}) => (~IsNa(r.state) /\ r.state.s \in p.state_filter)

\* a city filter that is applied only under a state selection
CityMaskUnderState(r, p) ==
    (p.city_filter # {} /\ p.state_filter # {})
        => (~IsNa(r.resolved_locality) /\ r.resolved_locality.s \in p.city_filter)

\* lines 937-938
CityMask(r, p) ==
    (p.city_filter # {})
        => (~IsNa(r.resolved_locality) /\ r.resolved_locality.s \in p.city_filter)

\* col.notna() alone
PositiveNotNa(c) == c.k = "num"

\* col.notna() & (col > 0)
Positive(c) == c.k = "num" /\ c.n > 0

\* lines 941-953
OutcomeMask(r, p) ==
    \A o \in p.any_outcomes_filter :
        CASE o = "arrests_any" -> Positive(r.arrests)
          [] o = "participant_injuries_any" -> Positive(r.participant_injuries)
          [] o = "police_injuries_any" -> Positive(r.police_injuries)
          [] o = "property_damage_any" -> r.property_damage_any = 1
          [] o = "participant_deaths_any" -> Positive(r.participant_deaths)
          [] o = "police_deaths_any" -> Positive(r.police_deaths)
          [] OTHER -> TRUE

RowMask(r, p) ==
    /\ DateMask(r, p)
    /\ NationalDayMask(r, p)
    /\ SizeMask(r, p)
    /\ OrgMask(r, p)
    /\ StateMask(r, p)
    /\ CityMask(r, p)
    /\ OutcomeMask(r, p)

\* the positions of the frame whose row the mask keeps, in increasing order
RECURSIVE Positions(_, _, _)
Positions(d, p, i) ==
    IF i > Len(d) THEN <<>>
    ELSE (IF RowMask(d[i], p) THEN <<i>> ELSE <<>>) \o Positions(d, p, i + 1)

\* line 955: dff.loc[mask].copy(); a row of the result carries its index
\* label idx, the position of the row in df
FilterBody(d, p) ==
    LET keep == Positions(d, p, 1)
    IN [j \in 1..Len(keep) |-> [idx |-> keep[j], row |-> d[keep[j]]]]

----------------------------------------------------------------------------
(* jitter_coords: src/app.py lines 857-880 *)

JitterRadius == 10000   \* jitter_amount=0.01 degrees, in units of 1e-6 degrees

\* 1000 * cos(2*pi*j/m) and 1000 * sin(2*pi*j/m), rounded, for j = 0..m-1
CosTable ==
    <<  <<1000>>,
        <<1000, -1000>>,
        <<1000, -500, -500>>,
        <<1000, 0, -1000, 0>>,
        <<1000, 309, -809, -809, 309>>  >>
SinTable ==
    <<  <<0>>,
        <<0, 0>>,
        <<0, 866, -866>>,
        <<0, 1000, 0, -1000>>,
        <<0, 951, 588, -588, -951>>  >>

\* round(5) of a coordinate: the nearest multiple of 1e-5 degrees, a tie to
\* the even one
Round5(n) ==
    LET q == n \div 10
        r == n % 10
    IN IF r < 5 THEN q
       ELSE IF r > 5 THEN q + 1
       ELSE IF q % 2 = 0 THEN q ELSE q + 1

RoundCell(c) == IF c.k = "num" THEN Num(Round5(c.n)) ELSE c

\* line 863: the rounded coordinate pair as a string; NaN prints as 'nan'
CoordKey(r) == <<RoundCell(r.lat), RoundCell(r.lon)>>

\* NaN + x is NaN
Shift(c, delta) == IF c.k = "num" THEN Num(c.n + delta) ELSE c

\* rows is a sequence of rows (the index already reset, line 862); the rows
\* that share a coordinate key with an earlier row move onto the circle
\* around the first row of their group
JitterCoords(rows) ==
    [i \in 1..Len(rows) |->
        LET idxs == {j \in 1..Len(rows) : CoordKey(rows[j]) = CoordKey(rows[i])}
            n == Cardinality(idxs)
            first == CHOOSE j \in idxs : \A h \in idxs : j <= h
            k == Cardinality({j \in idxs : j < i})
            center == rows[first]
        IN IF n <= 1 \/ i = first THEN rows[i]
           ELSE [rows[i] EXCEPT
                    !.lat = Shift(center.lat, (CosTable[n-1][k] * JitterRadius) \div 1000),
                    !.lon = Shift(center.lon, (SinTable[n-1][k] * JitterRadius) \div 1000)]]

----------------------------------------------------------------------------
(* location labels: src/app.py lines 1138-1150 and 1371-1379 *)

Digits == <<"0","1","2","3","4","5","6","7","8","9">>

\* str of the calendar date of day d
DateStr(d) ==
    <<"2","0","2","5","-","0","1","-">> \o <<Digits[(d \div 10) + 1], Digits[(d % 10) + 1]>>

Unknown == <<"U","n","k","n","o","w","n">>

\* a label is usable when it is not empty and not the text 'nan'
Usable(t) == t # <<>> /\ StrLower(t) # <<"n","a","n">>

\* replace('', 'Unknown').fillna('Unknown')
OrUnknown(t) == IF t = <<>> THEN Unknown ELSE t

\* lines 1371-1379, vectorized: the date of a row without date prints 'NaT'
VectorLabel(r) ==
    LET loc == StrStrip(AsTypeStr(r.location))
        loc2 == StrStrip(AsTypeStr(r.locality))
        date == IF IsNa(r.date) THEN <<"N","a","T">> ELSE DateStr(r.date.n)
    IN OrUnknown(IF Usable(loc) THEN loc
                 ELSE IF Usable(loc2) THEN loc2
                 ELSE AsTypeStr(r.state) \o <<",", " ">> \o date)

\* lines 1138-1150, row by row: a row without date prints 'Unknown'
BestLocation(r) ==
    LET loc == StrStrip(AsTypeStr(r.location))
        loc2 == StrStrip(AsTypeStr(r.locality))
        date == IF IsNa(r.date) THEN Unknown ELSE DateStr(r.date.n)
    IN OrUnknown(IF Usable(loc) THEN loc
                 ELSE IF Usable(loc2) THEN loc2
                 ELSE AsTypeStr(r.state) \o <<",", " ">> \o date)

----------------------------------------------------------------------------
(* aggregate_events_for_map: src/app.py lines 957-1009 *)

RECURSIVE SumOver(_, _)
SumOver(f, S) ==
    IF S = {} THEN 0
    ELSE LET x == CHOOSE y \in S : TRUE IN f[x] + SumOver(f, S \ {x})

\* x.mean() if x.notna().any() else NaN, kept as the exact quotient sum/cnt
MeanOf(cells) ==
    LET sized == {i \in DOMAIN cells : cells[i].k = "num"}
    IN [na |-> sized = {},
        sum |-> SumOver([i \in DOMAIN cells |-> cells[i].n], sized),
        cnt |-> Cardinality(sized)]

\* an aggregation whose dropna looks at lat alone
AggregateLatOnly(rows) ==
    LET located == {i \in 1..Len(rows) : ~IsNa(rows[i].row.lat)}
        labels == {rows[i].label : i \in located}
    IN {LET group == {i \in located : rows[i].label = l}
            first == CHOOSE i \in group : \A j \in group : i <= j
        IN [location_label |-> l,
            lat |-> rows[first].row.lat,
            lon |-> rows[first].row.lon,
            count |-> Cardinality(group),
            size_mean |-> MeanOf([i \in group |-> rows[i].row.size_mean])]
        : l \in labels}

\* rows is a sequence of labelled rows [label, row]; line 984 drops the rows
\* without lat or lon, lines 987-994 make one marker per label
AggregateEventsForMap(rows) ==
    LET located == {i \in 1..Len(rows) :
                        ~IsNa(rows[i].row.lat) /\ ~IsNa(rows[i].row.lon)}
        labels == {rows[i].label : i \in located}
    IN {LET group == {i \in located : rows[i].label = l}
            first == CHOOSE i \in group : \A j \in group : i <= j
        IN [location_label |-> l,
            lat |-> rows[first].row.lat,
            lon |-> rows[first].row.lon,
            count |-> Cardinality(group),
            size_mean |-> MeanOf([i \in group |-> rows[i].row.size_mean])]
        : l \in labels}

----------------------------------------------------------------------------
(* the daily series: src/app.py lines 1484-1558 *)

Dated(rows) == {i \in 1..Len(rows) : ~IsNa(rows[i].date)}

MinDay(rows, S) == CHOOSE d \in {rows[i].date.n : i \in S} :
                        \A j \in S : d <= rows[j].date.n
MaxDayOf(rows, S) == CHOOSE d \in {rows[i].date.n : i \in S} :
                        \A j \in S : d >= rows[j].date.n

\* a count per date that occurs, the days without event left out
DailyCountOccurring(rows) ==
    [d \in {rows[i].date.n : i \in Dated(rows)} |->
        Cardinality({i \in Dated(rows) : rows[i].date.n = d})]

\* set_index('date').resample('D').size(): one entry per calendar day from
\* the first to the last date; the rows without date fall in no bin
DailyCount(rows) ==
    LET S == Dated(rows)
    IN IF S = {} THEN <<>>
       ELSE [d \in MinDay(rows, S)..MaxDayOf(rows, S) |->
                Cardinality({i \in S : rows[i].date.n = d})]

\* the sum of each day and the day before it
CumSumTwoDays(series) ==
    [d \in DOMAIN series |-> SumOver(series, {e \in DOMAIN series : e <= d /\ e >= d - 1})]

\* cumsum()
CumSum(series) ==
    [d \in DOMAIN series |-> SumOver(series, {e \in DOMAIN series : e <= d})]

\* sum(), which skips NaN
NanSum(rows, S) ==
    SumOver([i \in 1..Len(rows) |-> rows[i].size_mean.n],
            {i \in S : rows[i].size_mean.k = "num"})

\* groupby('date').agg(('size_mean', 'sum')): one entry per date that occurs
DailyParticipants(rows) ==
    LET S == Dated(rows)
    IN [d \in {rows[i].date.n : i \in S} |->
            NanSum(rows, {i \in S : rows[i].date.n = d})]

RollingWindow == 7

\* lines 1485-1489: rows with a date and a size, resampled by day, sum times
\* count, then rolling(7).sum(), which is NaN until the window is full
Momentum(rows) ==
    LET S == {i \in Dated(rows) : rows[i].participants_numeric.k = "num"}
    IN IF S = {} THEN <<>>
       ELSE LET lo == MinDay(rows, S)
                hi == MaxDayOf(rows, S)
                prod == [d \in lo..hi |->
                            NanSum(rows, {i \in S : rows[i].date.n = d})
                            * Cardinality({i \in S : rows[i].date.n = d})]
            IN [d \in lo..hi |->
                    IF d - lo + 1 < RollingWindow THEN NaN
                    ELSE Num(SumOver(prod, (d - RollingWindow + 1)..d))]

----------------------------------------------------------------------------
(* the KPIs: src/app.py lines 1563-1670 *)

Dash == Text(<<"-">>)

RowsOf(frame) == [i \in 1..Len(frame) |-> frame[i].row]

\* a / b rounded to the nearest integer, a half to the even one: what a
\* format of fixed decimals does to the quotient
RoundDiv(a, b) ==
    LET q == a \div b
        r == a % b
    IN IF 2 * r < b THEN q
       ELSE IF 2 * r > b THEN q + 1
       ELSE IF q % 2 = 0 THEN q ELSE q + 1

\* count / len * 100 if len > 0 else 0.0, as the tile prints it: in units
\* of 1 / decimals of a percent (100 for the format .2f, 10 for .1f)
PctTile(count, len, decimals) ==
    IF len > 0 THEN Num(RoundDiv(100 * decimals * count, len)) ELSE Num(0)

\* count of the zero values of a column
CountZero(rows, col) ==
    Cardinality({i \in 1..Len(rows) : rows[i][col] = Num(0)})

\* count of NaN or zero values of a column
CountNone(rows, col) ==
    Cardinality({i \in 1..Len(rows) : IsNa(rows[i][col]) \/ rows[i][col].n = 0})

\* np.nanmax, NaN when every value is NaN
NanMax(values) ==
    IF values = {} THEN NaN
    ELSE Num(CHOOSE m \in values : \A x \in values : m >= x)

LargestEvent(rows) ==
    NanMax({rows[i].size_mean.n : i \in {j \in 1..Len(rows) : rows[j].size_mean.k = "num"}})

\* lines 1630-1638: the largest of the per-date sums; no dated row, NaN
LargestDay(rows) ==
    LET daily == DailyParticipants(rows)
    IN NanMax({daily[d] : d \in DOMAIN daily})

RECURSIVE GCD(_, _)
GCD(a, b) == IF b = 0 THEN a ELSE GCD(b, a % b)

US_POPULATION == 340100000

\* state_pop.STATE_POP, the population of each state by its abbreviation:
\* two entries of it
STATE_POP == (<<"C", "A">> :> 39538223) @@ (<<"N", "Y">> :> 20201249)

\* lines 1653-1659: the entry of a selected state, looked up as written and
\* then whatever the case of its letters
FoundAbbrevs(st) ==
    IF st \in DOMAIN STATE_POP THEN {st}
    ELSE {abbr \in DOMAIN STATE_POP : StrLower(abbr) = StrLower(st)}

\* the sum of line 1660
StatePopSum(state_filter) ==
    SumOver([st \in state_filter |->
                IF FoundAbbrevs(st) = {} THEN 0
                ELSE STATE_POP[CHOOSE abbr \in FoundAbbrevs(st) : TRUE]],
            state_filter)

\* a denominator that is the national population whatever is selected
PopDenomNational(state_filter) == US_POPULATION

\* lines 1649-1665
PopDenom(state_filter) ==
    IF state_filter # {} /\ StatePopSum(state_filter) > 0
    THEN StatePopSum(state_filter)
    ELSE US_POPULATION

\* lines 1666-1670: the share in hundredths of a percent, as printed
\* the fraction is reduced before the product is taken, which keeps the
\* product small
PercentOfPopulation(largest_day, state_filter) ==
    IF PopDenom(state_filter) > 0 /\ largest_day.k = "num" /\ largest_day.n # 0
    THEN LET g == GCD(100 * 100, PopDenom(state_filter))
         IN Num(RoundDiv(((100 * 100) \div g) * largest_day.n,
                         PopDenom(state_filter) \div g))
    ELSE Num(0)

\* the largest power of two that is at most n, n > 0
RECURSIVE Pow2Floor(_)
Pow2Floor(n) == IF n < 2 THEN 1 ELSE 2 * Pow2Floor(n \div 2)

\* line 1678, pop_denom * 0.035 in double arithmetic, against a whole number
\* of participants.  The double nearest to 0.035 is 0.035 + 3/(25 * 2^55).
\* When 0.035 * pop_denom is no whole number it is further from every whole
\* number than the rounding goes.  When it is one, pop_denom = 200 * k and
\* the product 7 * k + 96 * k / 2^57 is rounded up to the next double when
\* 96 * k / 2^57 is more than half the gap 2^(e - 52) of the doubles at
\* 7 * k, 2^e the largest power of two that is at most 7 * k; that is, when
\* 6 * k > 2^e.
AtLeastThreshold(total, pop_denom) ==
    LET k == pop_denom \div 200
    IN IF pop_denom % 200 # 0
       THEN total > 7 * k + ((7 * (pop_denom % 200)) \div 200)
       ELSE IF 6 * k > Pow2Floor(7 * k) THEN total > 7 * k
       ELSE total >= 7 * k

\* the store three-point-five-check holds nothing: lines 1111, 1355, 1780
NoCheck == [result |-> FALSE, met |-> FALSE, population |-> 0]

\* lines 1677-1687: three_point_five_result
ThreePointFiveResult(largest_day, state_filter) ==
    [result |-> TRUE,
     met |-> /\ largest_day.k = "num" /\ largest_day.n # 0
             /\ AtLeastThreshold(largest_day.n, PopDenom(state_filter)),
     population |-> PopDenom(state_filter)]

Kpis(rows, p) ==
    [total_events |-> Num(Len(rows)),
     mean_size |-> MeanOf([i \in 1..Len(rows) |-> rows[i].size_mean]),
     no_injuries |-> PctTile(CountNone(rows, "participant_injuries"), Len(rows), 100),
     no_arrests |-> PctTile(CountNone(rows, "arrests"), Len(rows), 100),
     no_damage |-> PctTile(Cardinality({i \in 1..Len(rows) : rows[i].property_damage_any = 0}),
                           Len(rows), 100),
     total_participants |-> Num(NanSum(rows, 1..Len(rows))),
     largest_event |-> LargestEvent(rows),
     largest_day |-> LargestDay(rows),
     percent_us_pop |-> PercentOfPopulation(LargestDay(rows), p.state_filter)]

\* the KPI tiles of the 'no' branch: the event count, a dash for the rest
KpisNoSize(rows) ==
    [total_events |-> Num(Len(rows)),
     mean_size |-> Dash, no_injuries |-> Dash, no_arrests |-> Dash,
     no_damage |-> Dash, total_participants |-> Dash,
     largest_event |-> Dash, largest_day |-> Dash, percent_us_pop |-> Dash]

KpisDash ==
    [total_events |-> Dash,
     mean_size |-> Dash, no_injuries |-> Dash, no_arrests |-> Dash,
     no_damage |-> Dash, total_participants |-> Dash,
     largest_event |-> Dash, largest_day |-> Dash, percent_us_pop |-> Dash]

----------------------------------------------------------------------------
(* update_all: src/app.py lines 1041-1781 *)

EmptyMap(note) == [note |-> note, markers |-> {}]
EmptyFig(note) == [note |-> note, series |-> <<>>]

\* the outputs before the first callback has run
NoOutput ==
    [kind |-> "none",
     fig_map |-> EmptyMap(""), fig_momentum |-> EmptyFig(""),
     fig_daily |-> EmptyFig(""), fig_cumulative |-> EmptyFig(""),
     fig_daily_participant |-> EmptyFig(""),
     table |-> <<>>, kpis |-> KpisDash,
     three_point_five |-> NoCheck]

\* lines 1070-1112: every figure is the annotated empty figure, the table
\* has no record, every KPI tile shows a dash
NoDataBundle ==
    [kind |-> "no_data",
     fig_map |-> EmptyMap("no_data"), fig_momentum |-> EmptyFig("no_data"),
     fig_daily |-> EmptyFig("no_data"), fig_cumulative |-> EmptyFig("no_data"),
     fig_daily_participant |-> EmptyFig("no_data"),
     table |-> <<>>, kpis |-> KpisDash,
     three_point_five |-> NoCheck]

\* lines 1741-1781: the except branch
ErrorBundle ==
    [kind |-> "error",
     fig_map |-> EmptyMap("error"), fig_momentum |-> EmptyFig("error"),
     fig_daily |-> EmptyFig("error"), fig_cumulative |-> EmptyFig("error"),
     fig_daily_participant |-> EmptyFig("error"),
     table |-> <<>>, kpis |-> KpisDash,
     three_point_five |-> NoCheck]

----------------------------------------------------------------------------
(* the memoization cache: src/app.py lines 58-62, 891 *)

\* a cache key that leaves the national day argument out
FilterKeyNoDay(p) ==
    [fn |-> "filter_data", args |-> [p EXCEPT !.national_day = NoDate]]

FilterKey(p) == [fn |-> "filter_data", args |-> p]

\* the entry i of the cache is stored under the key
Holds(i, key) == cache[i].key.fn = key.fn /\ cache[i].key = key

Cached(key) == \E i \in 1..Len(cache) : Holds(i, key)

CacheGet(key) == cache[CHOOSE i \in 1..Len(cache) : Holds(i, key)].value

\* the part agg of an entry in whose request aggregate_events_for_map stored
\* nothing
NoAgg == [key |-> [fn |-> "none", args |-> <<>>], value |-> <<>>]

\* a new entry; the cache is pruned oldest first when it is full
CachePut(c, key, value) ==
    (IF Len(c) >= MaxCache THEN Tail(c) ELSE c)
        \o <<[key |-> key, value |-> value, agg |-> NoAgg]>>

\* the call filter_data(*p) of update_all: a hit returns the stored frame and
\* runs no line of the body; a miss runs the body, which writes the coerced
\* columns into df, and stores what it returns
CallFilterData(p) ==
    IF Cached(FilterKey(p))
    THEN /\ dff' = CacheGet(FilterKey(p))
         /\ UNCHANGED df
    ELSE /\ df' = CoerceFrame(df)
         /\ dff' = FilterBody(CoerceFrame(df), p)

\* the entries after the call filter_data(*p), which returned dff'
CacheAfterFilter(p) ==
    IF Cached(FilterKey(p)) THEN cache
    ELSE CachePut(cache, FilterKey(p), dff')

MaxColWidth == 50       \* pandas display.max_colwidth
DisplayMaxRows == 60    \* pandas display.max_rows
DisplayMinRows == 10    \* pandas display.min_rows

\* a string cell as repr(DataFrame) prints it
ReprText(t) ==
    IF Len(t) > MaxColWidth
    THEN SubSeq(t, 1, MaxColWidth - 3) \o <<".", ".", ".">>
    ELSE t

\* a cell as printed; a float is printed to six decimals, the unit of the
\* coordinates here
ReprCell(c) == IF c.k = "text" THEN Text(ReprText(c.s)) ELSE c

ReprRow(lr) ==
    [label |-> ReprText(lr.label),
     row |-> [f \in DOMAIN lr.row |->
                IF f = "property_damage_any" THEN lr.row[f] ELSE ReprCell(lr.row[f])]]

\* repr of a frame whose index jitter_coords has reset (line 862): every
\* row, or the first and the last rows of a frame of more than
\* DisplayMaxRows, and the shape
ReprFrame(frame) ==
    LET n == Len(frame)
        half == DisplayMinRows \div 2
        shown == IF n > DisplayMaxRows THEN (1..half) \cup ((n - half + 1)..n)
                 ELSE 1..n
    IN [rows |-> [i \in shown |-> ReprRow(frame[i])], shape |-> n]

\* flask_caching makes the key of a memoized call from the repr of its
\* arguments
AggKey(frame) == [fn |-> "aggregate_events_for_map", args |-> ReprFrame(frame)]

\* the entry i holds markers under the key
AggHolds(i, key) == cache[i].agg.key.fn = key.fn /\ cache[i].agg.key = key

AggCached(key) == \E i \in 1..Len(cache) : AggHolds(i, key)

AggGet(key) == cache[CHOOSE i \in 1..Len(cache) : AggHolds(i, key)].agg.value

\* what the call aggregate_events_for_map(frame) of update_all returns: the
\* stored markers on a hit, else what the body computes
MemoizedAggregate(frame) ==
    IF AggCached(AggKey(frame)) THEN AggGet(AggKey(frame))
    ELSE AggregateEventsForMap(frame)

\* the entries c after the call in the request of the widget values p: a
\* miss stores the markers, which time out with the entry of the request
AggCacheAfter(c, p, frame) ==
    IF AggCached(AggKey(frame)) THEN c
    ELSE LET i == CHOOSE j \in 1..Len(c) : c[j].key = FilterKey(p)
         IN [c EXCEPT ![i].agg = [key |-> AggKey(frame),
                                  value |-> AggregateEventsForMap(frame)]]

\* the entries time out 120 seconds after they were stored, oldest first
CacheExpire ==
    /\ cache # <<>>
    /\ cache' = Tail(cache)
    /\ UNCHANGED <<csv, df, inputs, dff, out, st_page, side>>

\* the fields the label is made of: a column that the frame lacks is read as
\* 'Unknown' (lines 1138-1146, 1371-1373)
LabelFields(r) ==
    [r EXCEPT !.location = IF "location" \in columns THEN @ ELSE Text(Unknown),
              !.locality = IF "locality" \in columns THEN @ ELSE Text(Unknown),
              !.state = IF "state" \in columns THEN @ ELSE Text(Unknown)]

\* dff_jittered as update_all hands it to aggregate_events_for_map: lines
\* 1129-1150 under size_filter == "no", lines 1360-1379 otherwise
MapFrame(rows, p) ==
    LET jittered == JitterCoords(rows)
    IN [i \in 1..Len(rows) |->
            [label |-> IF p.size_filter = "no" THEN BestLocation(LabelFields(jittered[i]))
                       ELSE VectorLabel(LabelFields(jittered[i])),
             row |-> jittered[i]]]

\* lines 1115-1357: the branch of size_filter == "no"
NoSizeBundle(rows) ==
    LET jittered == JitterCoords(rows)
        labelled == [i \in 1..Len(rows) |->
                        [label |-> BestLocation(LabelFields(jittered[i])),
                         row |-> jittered[i]]]
    IN [kind |-> "no_size",
        fig_map |-> [note |-> "", markers |-> MemoizedAggregate(labelled)],
        fig_momentum |-> EmptyFig("dash"),
        fig_daily |-> [note |-> "", series |-> DailyCount(rows)],
        fig_cumulative |-> [note |-> "", series |-> CumSum(DailyCount(rows))],
        fig_daily_participant |-> EmptyFig("dash"),
        table |-> jittered,
        kpis |-> KpisNoSize(rows),
        three_point_five |-> NoCheck]

\* lines 1359-1739
FullBundle(rows, p) ==
    LET jittered == JitterCoords(rows)
        labelled == [i \in 1..Len(rows) |->
                        [label |-> VectorLabel(LabelFields(jittered[i])),
                         row |-> jittered[i]]]
    IN [kind |-> "full",
        fig_map |-> [note |-> "", markers |-> MemoizedAggregate(labelled)],
        fig_momentum |-> [note |-> "", series |-> Momentum(rows)],
        fig_daily |-> [note |-> "", series |-> DailyCount(rows)],
        fig_cumulative |-> [note |-> "", series |-> CumSum(DailyCount(rows))],
        fig_daily_participant |-> [note |-> "", series |-> DailyParticipants(rows)],
        table |-> jittered,
        kpis |-> Kpis(rows, p),
        three_point_five |-> ThreePointFiveResult(LargestDay(rows), p.state_filter)]

\* an all() that is False of an empty column
AllNullNonEmpty(rows, col) ==
    Len(rows) > 0 /\ \A i \in 1..Len(rows) : IsNa(rows[i][col])

\* col.isnull().all(), which is True of an empty column
AllNull(rows, col) == \A i \in 1..Len(rows) : IsNa(rows[i][col])

\* resample('D') of an index that holds nothing but NaT has no first day to
\* start from: the call may raise, which update_all catches (line 1741)
ResampleOutcomes(rows) ==
    IF Len(rows) > 0 /\ Dated(rows) = {} THEN {"raises", "empty"} ELSE {"ok"}

\* the body of update_all after the call of filter_data
UpdateAllBody(frame, p, resample) ==
    LET rows == RowsOf(frame)
    IN IF AllNull(rows, "lat") \/ AllNull(rows, "lon") THEN NoDataBundle
       ELSE IF resample = "raises" THEN ErrorBundle
       ELSE IF p.size_filter = "no" THEN NoSizeBundle(rows)
       ELSE FullBundle(rows, p)

----------------------------------------------------------------------------
(* the callbacks *)

\* the values the filter widgets start with: src/app.py lines 86-182
DefaultInputs(d) ==
    [start_date |-> IF Dated(d) = {} THEN NoDate ELSE MinDay(d, Dated(d)),
     end_date |-> IF Dated(d) = {} THEN NoDate ELSE MaxDayOf(d, Dated(d)),
     size_filter |-> "all",
     org_search |-> <<>>,
     state_filter |-> {},
     city_filter |-> {},
     any_outcomes_filter |-> {},
     national_day |-> NoDate]

\* the columns the body of filter_data reads for the widget values p, beside
\* the ones it converts when they are there: lines 911-953
FilterNeeds(p) ==
    (IF (p.start_date # NoDate /\ p.end_date # NoDate) \/ p.national_day # NoDate
     THEN {"date"} ELSE {})
    \cup (IF p.size_filter \in {"has", "no"} THEN {"size_mean"} ELSE {})
    \cup (IF p.org_search # <<>> /\ StrStrip(p.org_search) # <<>>
             /\ OrgTerms(p.org_search) # {}
          THEN {"organizations"} ELSE {})
    \cup (IF p.state_filter # {} THEN {"state"} ELSE {})
    \cup (IF p.city_filter # {} THEN {"resolved_locality"} ELSE {})
    \cup {CASE o = "arrests_any" -> "arrests"
            [] o = "participant_injuries_any" -> "participant_injuries"
            [] o = "police_injuries_any" -> "police_injuries"
            [] o = "property_damage_any" -> "property_damage_any"
            [] o = "participant_deaths_any" -> "participant_deaths"
            [] o = "police_deaths_any" -> "police_deaths"
            [] OTHER -> "date"
          : o \in p.any_outcomes_filter}

\* required_cols, lines 1056-1059
RequiredCols ==
    {"lat", "lon", "participant_injuries", "arrests", "property_damage_any",
     "participants_numeric", "size_mean", "date"}

\* update_all on the widget values p: a KeyError of filter_data on a column
\* df lacks, or the ValueError of line 1062, ends in the handler of line
\* 1741; else the memoized filter_data, then, past
\* the guard of line 1069, the memoized aggregate_events_for_map (lines
\* 1151, 1380), which comes before the first resample
\* the body of update_all on the widget values p
UpdateAllCall(p) ==
    /\ IF Cached(FilterKey(p)) \/ FilterNeeds(p) \subseteq columns
       THEN /\ CallFilterData(p)
            /\ LET rows == RowsOf(dff')
               IN IF ~(RequiredCols \subseteq columns)
                  THEN /\ out' = ErrorBundle
                       /\ cache' = CacheAfterFilter(p)
                  ELSE IF AllNull(rows, "lat") \/ AllNull(rows, "lon")
                  THEN /\ out' = UpdateAllBody(dff', p, "ok")
                       /\ cache' = CacheAfterFilter(p)
                  ELSE /\ \E frame \in {MapFrame(rows, p)} :
                            cache' = AggCacheAfter(CacheAfterFilter(p), p, frame)
                       /\ \E resample \in ResampleOutcomes(rows) :
                            out' = UpdateAllBody(dff', p, resample)
       ELSE /\ df' = CoerceFrame(df)
            /\ dff' = <<>>
            /\ out' = ErrorBundle
            /\ UNCHANGED cache

\* the callback update_all
UpdateAll(p) ==
    /\ UpdateAllCall(p)
    /\ UNCHANGED <<csv, st_page, side>>

\* the page loads: update_all runs on the initial values of the widgets
PageLoad ==
    /\ out.kind = "none"
    /\ UpdateAll(inputs)
    /\ UNCHANGED inputs

\* the user changes filter widgets to the values p: update_all runs on them
ChangeFilters(P) ==
    /\ out.kind # "none"
    /\ \E p \in P :
        /\ inputs' = p
        /\ UpdateAll(p)

----------------------------------------------------------------------------
(* update_all on the threads of the server: src/app.py lines 891-905, 957,
   1041-1052, 1380 *)

\* the threads of the server that answer requests
Workers == {"w1", "w2"}

\* the columns filter_data converts, in the order of lines 900-905
CoerceCols ==
    <<"arrests", "participant_injuries", "police_injuries",
      "participant_deaths", "police_deaths">>

\* a thread that runs no request
IdleReq == [pc |-> "idle", p |-> 0, col |-> 0, frame |-> <<>>, markers |-> {}]

\* line 905 on one column: dff[col] = pd.to_numeric(dff[col], errors='coerce'),
\* where dff is df itself (line 896)
CoerceCol(d, col) == [i \in 1..Len(d) |-> [d[i] EXCEPT ![col] = ToNumeric(@)]]

\* cache.set(key, value) of a filtered frame: the entry of the key is
\* replaced, or a new entry is added
SetFilterEntry(c, key, value) ==
    IF Cached(key)
    THEN [c EXCEPT ![CHOOSE i \in 1..Len(c) : Holds(i, key)].value = value]
    ELSE CachePut(c, key, value)

\* cache.set(key, value) of markers: they are kept with the entry of the
\* request, or alone when that entry is gone
SetAggEntry(c, fkey, key, value) ==
    IF Cached(fkey)
    THEN [c EXCEPT ![CHOOSE i \in 1..Len(c) : Holds(i, fkey)].agg
                        = [key |-> key, value |-> value]]
    ELSE (IF Len(c) >= MaxCache THEN Tail(c) ELSE c)
            \o <<[key |-> NoAgg.key, value |-> <<>>,
                  agg |-> [key |-> key, value |-> value]]>>

\* a request arrives with the widget values p
ReqStart(w, P) ==
    /\ reqs[w].pc = "idle"
    /\ \E p \in P : reqs' = [reqs EXCEPT ![w] = [IdleReq EXCEPT !.pc = "lookup", !.p = p]]
    /\ UNCHANGED <<df, cache>>

\* the memoized filter_data looks its key up
ReqFilterLookup(w) ==
    /\ reqs[w].pc = "lookup"
    /\ reqs' = [reqs EXCEPT ![w] =
                  IF Cached(FilterKey(reqs[w].p))
                  THEN [@ EXCEPT !.pc = "guard",
                                 !.frame = CacheGet(FilterKey(reqs[w].p))]
                  ELSE [@ EXCEPT !.pc = "coerce", !.col = 1]]
    /\ UNCHANGED <<df, cache>>

\* the body of filter_data writes one converted column into the shared df
ReqCoerce(w) ==
    /\ reqs[w].pc = "coerce"
    /\ df' = CoerceCol(df, CoerceCols[reqs[w].col])
    /\ reqs' = [reqs EXCEPT ![w] =
                  IF @.col = Len(CoerceCols) THEN [@ EXCEPT !.pc = "mask"]
                  ELSE [@ EXCEPT !.col = @ + 1]]
    /\ UNCHANGED cache

\* lines 897-955: the mask and the copy of the rows it keeps
ReqFilterBody(w) ==
    /\ reqs[w].pc = "mask"
    /\ reqs' = [reqs EXCEPT ![w] = [@ EXCEPT !.pc = "store", !.frame = FilterBody(df, reqs[w].p)]]
    /\ UNCHANGED <<df, cache>>

\* the memoized filter_data stores what its body returned
ReqFilterStore(w) ==
    /\ reqs[w].pc = "store"
    /\ cache' = SetFilterEntry(cache, FilterKey(reqs[w].p), reqs[w].frame)
    /\ reqs' = [reqs EXCEPT ![w].pc = "guard"]
    /\ UNCHANGED df

\* past the guard of line 1069 the memoized aggregate_events_for_map looks
\* its key up
ReqAggLookup(w) ==
    /\ reqs[w].pc = "guard"
    /\ LET rows == RowsOf(reqs[w].frame)
           key == AggKey(MapFrame(rows, reqs[w].p))
       IN reqs' = [reqs EXCEPT ![w] =
                     IF AllNull(rows, "lat") \/ AllNull(rows, "lon")
                     THEN [@ EXCEPT !.pc = "done"]
                     ELSE IF AggCached(key)
                     THEN [@ EXCEPT !.pc = "done", !.markers = AggGet(key)]
                     ELSE [@ EXCEPT !.pc = "agg"]]
    /\ UNCHANGED <<df, cache>>

\* the body of aggregate_events_for_map runs and its markers are stored
ReqAggStore(w) ==
    /\ reqs[w].pc = "agg"
    /\ \E frame \in {MapFrame(RowsOf(reqs[w].frame), reqs[w].p)} :
         \E markers \in {AggregateEventsForMap(frame)} :
            /\ cache' = SetAggEntry(cache, FilterKey(reqs[w].p), AggKey(frame), markers)
            /\ reqs' = [reqs EXCEPT ![w] = [@ EXCEPT !.pc = "done", !.markers = markers]]
    /\ UNCHANGED df

\* update_all returns
ReqReturn(w) ==
    /\ reqs[w].pc = "done"
    /\ reqs' = [reqs EXCEPT ![w] = IdleReq]
    /\ UNCHANGED <<df, cache>>

\* a step of one of the threads, on widget values of P
ReqStep(P) ==
    /\ \E w \in Workers :
         \/ ReqStart(w, P)
         \/ ReqFilterLookup(w)
         \/ ReqCoerce(w)
         \/ ReqFilterBody(w)
         \/ ReqFilterStore(w)
         \/ ReqAggLookup(w)
         \/ ReqAggStore(w)
         \/ ReqReturn(w)
    /\ UNCHANGED <<csv, inputs, dff, out, st_page, columns, city_options,
                   download, details, tab, link_store, n_clicks, pending, missing_msg, threshold,
                   manual_csv, subs>>

----------------------------------------------------------------------------
(* the city dropdown: src/app.py lines 2045-2061 *)

\* an update of the options that keeps every selected city
CityOptionsKeepSelected(d, selected_states, selected_cities) ==
    IF selected_states = {} THEN [options |-> {}, value |-> {}]
    ELSE [options |-> {d[i].resolved_locality.s :
                         i \in {j \in 1..Len(d) :
                                  /\ ~IsNa(d[j].state)
                                  /\ d[j].state.s \in selected_states
                                  /\ ~IsNa(d[j].resolved_locality)}},
          value |-> selected_cities]

\* update_city_options: no options and no selection without a state; else the
\* distinct non-null resolved_locality of the rows of df whose state is
\* selected, and the selected cities that are among them
UpdateCityOptions(d, selected_states, selected_cities) ==
    IF selected_states = {} THEN [options |-> {}, value |-> {}]
    ELSE LET cities == {d[i].resolved_locality.s :
                          i \in {j \in 1..Len(d) :
                                   /\ ~IsNa(d[j].state)
                                   /\ d[j].state.s \in selected_states
                                   /\ ~IsNa(d[j].resolved_locality)}}
         IN [options |-> cities, value |-> selected_cities \cap cities]

\* the user changes the selection of states to one of SS: the callback sets
\* the options and the selection of the city dropdown
SelectStates(SS) ==
    /\ \E S \in SS :
         LET r == UpdateCityOptions(df, S, inputs.city_filter)
         IN /\ inputs' = [inputs EXCEPT !.state_filter = S, !.city_filter = r.value]
            /\ city_options' = r.options
    /\ UNCHANGED <<csv, df, cache, dff, out, st_page, reqs, columns, download,
                   details, tab, link_store, n_clicks, pending, missing_msg, threshold,
                   manual_csv, subs>>

\* the user selects cities among the options of the dropdown
SelectCities ==
    /\ \E C \in SUBSET city_options :
         /\ C # inputs.city_filter
         /\ inputs' = [inputs EXCEPT !.city_filter = C]
    /\ UNCHANGED <<csv, df, cache, dff, out, st_page, reqs, columns,
                   city_options, download, details, tab, link_store, n_clicks, pending,
                   missing_msg, threshold, manual_csv, subs>>

----------------------------------------------------------------------------
(* the download button: src/app.py lines 2010-2029 *)

\* the data of the store filtered-data as a callback receives it: nothing
\* before the first update_all, then the list of records update_all returned
\* (lines 1099, 1343, 1726, 1768)
\* lines 1367 and 1126: NaN and None become '' in the records
StoreCell(c) == IF IsNa(c) THEN Text(<<>>) ELSE c

StoreRecords(rows) ==
    [i \in 1..Len(rows) |-> [f \in DOMAIN rows[i] |->
        IF f = "property_damage_any" THEN rows[i][f] ELSE StoreCell(rows[i][f])]]

FilteredData ==
    IF out.kind = "none" THEN [type |-> "none", records |-> <<>>]
    ELSE [type |-> "list", records |-> StoreRecords(out.table)]

\* download_filtered_table: nothing is sent for no data or an empty list;
\* else io.StringIO(filtered_data) takes a str only and raises TypeError on a
\* list, before the choice is looked at; a str is parsed, and df or the
\* parsed frame is sent as CSV
DownloadFilteredTable(filtered_data, download_choice) ==
    IF filtered_data.type = "none" \/ filtered_data.records = <<>>
    THEN [kind |-> "no_update", choice |-> download_choice, rows |-> <<>>]
    ELSE IF filtered_data.type # "str"
    THEN [kind |-> "error", choice |-> download_choice, rows |-> <<>>]
    ELSE [kind |-> "file", choice |-> download_choice,
          rows |-> IF download_choice = "full" THEN df ELSE filtered_data.records]

\* a click on the download button, with one of the two choices
ClickDownload ==
    /\ \E choice \in {"full", "filtered"} :
         download' = DownloadFilteredTable(FilteredData, choice)
    /\ UNCHANGED <<csv, df, cache, inputs, dff, out, st_page, reqs, columns,
                   city_options, details, tab, link_store, n_clicks, pending, missing_msg,
                   threshold, manual_csv, subs>>

----------------------------------------------------------------------------
(* the message on the events missing participant counts and its links:
   src/app.py lines 2063-2197 and 2229-2235 *)

\* the tabs of the page, lines 514-647
Tabs == {"map", "graphs", "table"}

\* lines 2093-2165 of update_missing_count_message, dff_no being what the
\* call of filter_data in line 2124 returned
MissingCountMessage(filtered_json, size_filter, dff_no, old) ==
    IF filtered_json.type = "none" \/ filtered_json.records = <<>>
    THEN [text |-> "no_match", total |-> 0, missing |-> 0, link |-> "none"]
    ELSE IF "size_mean" \notin columns
    THEN [old EXCEPT !.link = "none"]
    ELSE LET records == filtered_json.records
             total_events == Len(records)
             missing_count == Cardinality({i \in 1..Len(records) : IsNa(records[i].size_mean)})
             all_have == [text |-> "all_have", total |-> total_events,
                          missing |-> 0, link |-> "none"]
         IN IF size_filter = "no"
            THEN [text |-> "missing_only", total |-> total_events,
                  missing |-> 0, link |-> "none"]
            ELSE IF size_filter = "has"
            THEN IF Len(dff_no) = 0 THEN all_have
                 ELSE [text |-> "additional_missing", total |-> total_events,
                       missing |-> Len(dff_no), link |-> "inline"]
            ELSE IF missing_count > 0
                 THEN [text |-> "some_missing", total |-> total_events,
                       missing |-> missing_count, link |-> "inline"]
                 ELSE all_have

\* the arguments of the call in lines 2124-2126: the size filter is "no", and
\* national_day_value is left at its default None
MissingArgs(p) == [p EXCEPT !.size_filter = "no", !.national_day = NoDate]

\* the callback update_missing_count_message, which a change of the store
\* filtered-data starts; with the size filter "has" it calls filter_data
UpdateMissingCountMessage ==
    /\ out.kind # "none"
    /\ LET key == FilterKey(MissingArgs(inputs))
           calls == /\ FilteredData.records # <<>>
                    /\ "size_mean" \in columns
                    /\ inputs.size_filter = "has"
       IN IF ~calls
          THEN /\ missing_msg' = MissingCountMessage(FilteredData, inputs.size_filter,
                                                     <<>>, missing_msg)
               /\ UNCHANGED <<df, cache>>
          ELSE IF Cached(key)
          THEN /\ missing_msg' = MissingCountMessage(FilteredData, inputs.size_filter,
                                                     CacheGet(key), missing_msg)
               /\ UNCHANGED <<df, cache>>
          ELSE IF FilterNeeds(MissingArgs(inputs)) \subseteq columns
          THEN /\ df' = CoerceFrame(df)
               /\ \E dff_no \in {FilterBody(CoerceFrame(df), MissingArgs(inputs))} :
                    /\ cache' = CachePut(cache, key, dff_no)
                    /\ missing_msg' = MissingCountMessage(FilteredData, inputs.size_filter,
                                                          dff_no, missing_msg)
          ELSE /\ df' = CoerceFrame(df)
               /\ UNCHANGED <<cache, missing_msg>>
    /\ UNCHANGED <<csv, inputs, dff, out, st_page, reqs, columns, city_options,
                   download, details, tab, link_store, n_clicks, pending,
                   threshold, manual_csv, subs>>

\* a callback that leaves the store as it is
KeepMissingLinkStore(tab_value) == link_store

\* reset_missing_link_store, lines 2229-2235
ResetMissingLinkStore(tab_value) == 0

\* handle_show_missing_and_tab, lines 2179-2197: triggered_id is the tab of
\* the clicked link, or "dashboard-tabs"; clicks are the n_clicks of the links
HandleShowMissingAndTab(triggered_id, clicks, store_val) ==
    LET clicked == IF triggered_id \in Tabs THEN clicks[triggered_id] ELSE 0
    IN IF clicked # 0 /\ clicked # store_val
       THEN [size_filter |-> "no", tab |-> "table", store |-> clicked]
       ELSE [size_filter |-> "no_update", tab |-> "no_update", store |-> store_val]

\* the user clicks the link of the selected tab.  The values the callback
\* returns for the size filter and the tab start update_all and
\* reset_missing_link_store; the renderer does not start a callback again
\* for an output of its own.
ClickLink(t) ==
    /\ pending = <<>>
    /\ tab = t
    /\ missing_msg.link = "inline"
    /\ n_clicks[t] < MaxClicks
    /\ n_clicks' = [n_clicks EXCEPT ![t] = @ + 1]
    /\ \E r \in {HandleShowMissingAndTab(t, n_clicks', link_store)} :
         /\ link_store' = r.store
         /\ IF r.tab = "no_update"
            THEN UNCHANGED <<df, cache, inputs, dff, out, tab, pending>>
            ELSE /\ inputs' = [inputs EXCEPT !.size_filter = r.size_filter]
                 /\ UpdateAllCall([inputs EXCEPT !.size_filter = r.size_filter])
                 /\ tab' = r.tab
                 /\ pending' = <<[cb |-> "reset", store_val |-> r.store]>>
    /\ UNCHANGED <<csv, st_page, reqs, columns, city_options, download, details,
                   missing_msg, threshold, manual_csv, subs>>

\* the user selects another tab: both callbacks with the input
\* dashboard-tabs start, each with the data of the store as it is now, and
\* their answers arrive in either order
SelectTab(t) ==
    /\ pending = <<>>
    /\ t # tab
    /\ tab' = t
    /\ \E first \in {"handle", "reset"} :
         pending' = <<[cb |-> first, store_val |-> link_store],
                      [cb |-> IF first = "handle" THEN "reset" ELSE "handle",
                       store_val |-> link_store]>>
    /\ UNCHANGED <<csv, df, cache, inputs, dff, out, st_page, reqs, columns,
                   city_options, download, details, link_store, n_clicks,
                   missing_msg, threshold, manual_csv, subs>>

\* the answer of the first of the started callbacks is written to the store
WriteLinkStore ==
    /\ pending # <<>>
    /\ link_store' =
         IF Head(pending).cb = "reset" THEN ResetMissingLinkStore(tab)
         ELSE HandleShowMissingAndTab("dashboard-tabs", n_clicks,
                                      Head(pending).store_val).store
    /\ pending' = Tail(pending)
    /\ UNCHANGED <<csv, df, cache, inputs, dff, out, st_page, reqs, columns,
                   city_options, download, details, tab, n_clicks,
                   missing_msg, threshold, manual_csv, subs>>

----------------------------------------------------------------------------
(* the row of the 3.5% check: src/app.py lines 2199-2226 *)

\* the row of the 3.5% check is empty, line 495
NoThreshold == [kind |-> "blank", met |-> FALSE, as_of |-> NoDate]

SetMax(S) == CHOOSE m \in S : \A x \in S : x <= m

\* the dates of the records that have one
RecordDates(records) ==
    {records[i].date.n : i \in {j \in 1..Len(records) : records[j].date.k = "num"}}

\* update_threshold_row: nothing without records or without a result.  When
\* no record has a date, the maximum of the column is not a date: the row is
\* empty, or strftime raises and the row stays as it was.
ThresholdRows(three_point_five_data, filtered_json, old) ==
    IF filtered_json.type = "none" \/ filtered_json.records = <<>>
       \/ ~three_point_five_data.result \/ "date" \notin columns
    THEN {NoThreshold}
    ELSE IF RecordDates(filtered_json.records) = {}
    THEN {NoThreshold, old}
    ELSE {[kind |-> "row", met |-> three_point_five_data.met,
           as_of |-> SetMax(RecordDates(filtered_json.records))]}

\* the callback update_threshold_row, which a new value of the store
\* three-point-five-check starts
UpdateThresholdRow ==
    /\ out.kind # "none"
    /\ threshold' \in ThresholdRows(out.three_point_five, FilteredData, threshold)
    /\ UNCHANGED <<csv, df, cache, inputs, dff, out, st_page, reqs, columns,
                   city_options, download, details, tab, link_store, n_clicks,
                   pending, missing_msg, manual_csv, subs>>

----------------------------------------------------------------------------
(* the event details panel: src/app.py lines 1783-1941 *)

\* round_coord, lines 1838-1842: round(float(val), 4), None for the '' that
\* stands for a missing value in the records
RoundCoord(c) == IF c.k = "num" THEN Num(RoundDiv(c.n, 100)) ELSE NaN

\* norm, lines 1820-1823
Norm(t) == StrStrip(StrLower(t))

\* update_event_details on the clicked point and the records of the store:
\* the records have no column location_label (line 1366 copies the frame
\* before line 1378 adds the column), so every record has the label ''; an
\* exact match of the labels, then '' containing the label, then the records
\* at the rounded coordinates of the point.  The result names the records it
\* lists by their positions.
UpdateEventDetails(click, filtered_data) ==
    IF click.kind = "none" \/ filtered_data.type = "none" \/ filtered_data.records = <<>>
    THEN [kind |-> "prompt", click |-> click, listed |-> {}]
    ELSE LET records == filtered_data.records
             by_label == IF Norm(click.text) = <<>> THEN DOMAIN records ELSE {}
             by_place == {i \in DOMAIN records :
                            /\ ~IsNa(records[i].lat) /\ ~IsNa(records[i].lon)
                            /\ RoundCoord(records[i].lat) = RoundCoord(click.lat)
                            /\ RoundCoord(records[i].lon) = RoundCoord(click.lon)}
             location_events == IF by_label # {} THEN by_label ELSE by_place
         IN IF location_events = {}
            THEN [kind |-> "not_found", click |-> click, listed |-> {}]
            ELSE [kind |-> "events", click |-> click, listed |-> location_events]

\* the point of a marker of the map
PointOf(m) == [kind |-> "point", text |-> m.location_label, lat |-> m.lat, lon |-> m.lon]

\* the user clicks a marker of the map
ClickMarker ==
    /\ \E m \in out.fig_map.markers :
         details' = UpdateEventDetails(PointOf(m), FilteredData)
    /\ UNCHANGED <<csv, df, cache, inputs, dff, out, st_page, reqs, columns,
                   city_options, download, tab, link_store, n_clicks, pending, missing_msg,
                   threshold, manual_csv, subs>>

----------------------------------------------------------------------------
(* the submission form: src/Non-App Files/dashboard_with_form_no_submit.py,
   lines 561-583.  The development server runs every request in a thread of
   its own (app.run, line 583), so two calls of submit_event can overlap. *)

\* headers, line 575
Headers == <<"Email", "Date", "Locality", "Title", "Event Type", "Claims Summary", "Size Estimate">>

\* the calls that have started: the ones that returned and the ones running
Started ==
    LET RECURSIVE count(_)
        count(W) == IF W = {} THEN 0
                    ELSE LET w == CHOOSE x \in W : TRUE
                         IN Len(subs[w].returned)
                            + (IF subs[w].pc = "idle" THEN 0 ELSE 1)
                            + count(W \ {w})
    IN count(Workers)

\* lines 574-578: the call opens the file for appending and asks for the
\* position, which is 0 when the file is missing or empty
SubmitOpen(w, new_row) ==
    /\ subs[w].pc = "idle"
    /\ Started < MaxSubmissions
    /\ subs' = [subs EXCEPT ![w] = [pc |-> "open", at_start |-> manual_csv = <<>>,
                                    new_row |-> new_row, returned |-> subs[w].returned]]
    /\ UNCHANGED manual_csv

\* lines 578-582: the rows go to the buffer of the file object and reach the
\* file when the with block closes it; the call returns its message
SubmitClose(w) ==
    /\ subs[w].pc = "open"
    /\ manual_csv' = manual_csv
                     \o (IF subs[w].at_start THEN <<Headers>> ELSE <<>>)
                     \o <<subs[w].new_row>>
    /\ subs' = [subs EXCEPT ![w] = [pc |-> "idle", at_start |-> FALSE, new_row |-> <<>>,
                                    returned |-> Append(subs[w].returned, subs[w].new_row)]]

\* one step of one call of submit_event with a row out of R
SubmitStep(R) ==
    /\ \E w \in Workers :
         \/ \E new_row \in R : SubmitOpen(w, new_row)
         \/ SubmitClose(w)
    /\ UNCHANGED <<csv, df, cache, inputs, dff, out, st_page, reqs, columns,
                   city_options, download, details, tab, link_store, n_clicks, pending,
                   missing_msg, threshold>>

----------------------------------------------------------------------------
(* The Streamlit dashboard: src/app_streamlit.py *)

\* load_data, lines 12-29: the coercions of the load of src/app.py
StLoadData(file) == LoadData(file)

\* lines 68-80, on the coerced columns; property damage on the cell as read
StOutcomeMask(r, p) ==
    \A o \in p.any_outcomes_filter :
        CASE o = "arrests_any" -> Positive(r.arrests)
          [] o = "participant_injuries_any" -> Positive(r.participant_injuries)
          [] o = "police_injuries_any" -> Positive(r.police_injuries)
          [] o = "property_damage_any" -> PropertyDamageAny(r.property_damage) = 1
          [] o = "participant_deaths_any" -> Positive(r.participant_deaths)
          [] o = "police_deaths_any" -> Positive(r.police_deaths)
          [] OTHER -> TRUE

\* filter_data, lines 47-82, with the anti-Trump checkbox unchecked: the
\* rows the mask keeps, in the order of the frame
StFilterData(d, p) ==
    SelectSeq(d, LAMBDA r : /\ DateMask(r, p)
                            /\ SizeMask(r, p)
                            /\ OrgMask(r, p)
                            /\ StateMask(r, p)
                            /\ StOutcomeMask(r, p))

StJitterAmount == 30000     \* jitter_amount=0.03 degrees
StMinRadius == 500          \* random.uniform(0.0005, jitter_amount)

\* the moves cos(angle) * radius, sin(angle) * radius that the two calls
\* of random.uniform of lines 41-42 can give, a few of them
StOffsets ==
    {o \in {-500, 0, 10000} \X {-500, 0, 10000} :
        /\ o[1] * o[1] + o[2] * o[2] >= StMinRadius * StMinRadius
        /\ o[1] * o[1] + o[2] * o[2] <= StJitterAmount * StJitterAmount}

\* line 33: the coordinate pair as a string, not rounded
StCoordKey(r) == <<r.lat, r.lon>>

\* the rows that are not the first of their group
StMoved(rows) ==
    {i \in 1..Len(rows) : \E j \in 1..(i - 1) : StCoordKey(rows[j]) = StCoordKey(rows[i])}

\* jitter_coords, lines 31-45: every row but the first of its group moves
\* from its own coordinate by the random move off[i]
StJitterCoords(rows, off) ==
    [i \in 1..Len(rows) |->
        IF i \in StMoved(rows)
        THEN [rows[i] EXCEPT !.lat = Shift(@, off[i][1]), !.lon = Shift(@, off[i][2])]
        ELSE rows[i]]

\* nothing drawn yet
NoPage == [kind |-> "none", inputs |-> DefaultInputs(<<>>), dff |-> <<>>,
           map_in |-> <<>>, map_rows |-> <<>>,
           daily |-> <<>>, cumulative |-> <<>>, participants |-> <<>>,
           kpis |-> [total_events |-> 0, percent_no_size |-> Num(0)]]

\* lines 310-317: the event count and the share of events without a size,
\* printed with one decimal (line 331)
StKpis(rows) ==
    [total_events |-> Len(rows),
     percent_no_size |->
        PctTile(Cardinality({i \in 1..Len(rows) : IsNa(rows[i].size_mean)}),
                Len(rows), 10)]

\* line 485: set_index('date').resample('D')['size_mean'].sum(), one entry
\* per calendar day, 0 for a day without a size
StDailyParticipants(rows) ==
    LET S == Dated(rows)
    IN IF S = {} THEN <<>>
       ELSE [d \in MinDay(rows, S)..MaxDayOf(rows, S) |->
                NanSum(rows, {i \in S : rows[i].date.n = d})]

\* lines 274-339: the filtered rows; under the guard of line 336 the rows
\* with coordinates (line 337), and what jitter_coords makes of them;
\* lines 449-486: the three daily charts, drawn when some row has a date
StLocated(rows) == SelectSeq(rows, LAMBDA r : ~IsNa(r.lat) /\ ~IsNa(r.lon))

StPage(p, rows, off) ==
    LET shown == ~AllNull(rows, "lat") /\ ~AllNull(rows, "lon")
        located == StLocated(rows)
    IN [kind |-> "page", inputs |-> p, dff |-> rows,
        map_in |-> IF shown THEN located ELSE <<>>,
        map_rows |-> IF shown THEN StJitterCoords(located, off) ELSE <<>>,
        daily |-> IF AllNull(rows, "date") THEN <<>> ELSE DailyCount(rows),
        cumulative |-> IF AllNull(rows, "date") THEN <<>>
                       ELSE CumSum(DailyCount(rows)),
        participants |-> IF AllNull(rows, "date") THEN <<>>
                         ELSE StDailyParticipants(rows),
        kpis |-> StKpis(rows)]

\* a run of the script, from top to bottom, on the widget values p, the
\* random draws of jitter_coords giving moves of O
StreamlitRunWith(P, O) ==
    /\ \E p \in P :
        LET rows == StFilterData(StLoadData(csv), p)
        IN \E off \in [StMoved(StLocated(rows)) -> O] :
                st_page' = StPage(p, rows, off)
    /\ UNCHANGED <<csv, df, cache, inputs, dff, out, side>>

StreamlitRun(P) == StreamlitRunWith(P, StOffsets)

Datasets(U) == UNION {[1..n -> U] : n \in 0..MaxRows}

\* the columns of the source file the model follows
AllColumns ==
    {"date", "size_mean", "participants_numeric", "organizations", "state",
     "resolved_locality", "location", "locality", "title", "lat", "lon",
     "arrests", "participant_injuries", "police_injuries",
     "participant_deaths", "police_deaths", "property_damage",
     "property_damage_any"}

NoDownload == [kind |-> "none", choice |-> "filtered", rows |-> <<>>]
NoDetails == [kind |-> "prompt", click |-> [kind |-> "none"], listed |-> {}]
\* the message is empty and the links are hidden, lines 527-546
NoMessage == [text |-> "", total |-> 0, missing |-> 0, link |-> "none"]
IdleSub == [pc |-> "idle", at_start |-> FALSE, new_row |-> <<>>, returned |-> <<>>]

\* a frame that lacks the columns missing: its rows have nothing there
WithoutColumns(d, missing) ==
    IF missing = {} THEN d
    ELSE [i \in 1..Len(d) |->
            [f \in DOMAIN d[i] |->
                IF f \notin missing THEN d[i][f]
                ELSE IF f = "property_damage_any" THEN 0 ELSE NaN]]

\* the process starts on one of the source files D, of which it finds one of
\* the sets of columns CS
InitOn(D, CS) ==
    /\ columns \in CS
    /\ \E f \in D : csv = WithoutColumns(f, AllColumns \ columns)
    /\ df = WithoutColumns(LoadData(csv), AllColumns \ columns)
    /\ cache = <<>>
    /\ inputs = DefaultInputs(df)
    /\ dff = <<>>
    /\ out = NoOutput
    /\ st_page = NoPage
    /\ reqs = [w \in Workers |-> IdleReq]
    /\ city_options = {}
    /\ download = NoDownload
    /\ details = NoDetails
    /\ tab = "map"
    /\ link_store = 0
    /\ n_clicks = [t \in Tabs |-> 0]
    /\ pending = <<>>
    /\ missing_msg = NoMessage
    /\ threshold = NoThreshold
    /\ manual_csv = <<>>
    /\ subs = [w \in Workers |-> IdleSub]

\* the process starts on one of the source files D, with every column
InitFrom(D) == InitOn(D, {AllColumns})

InitWith(U) == InitFrom(Datasets(U))

----------------------------------------------------------------------------
(* The source files and the widget values the model is run on *)

sCA == <<"C","A">>
sNY == <<"N","Y">>
sLA == <<"L","A">>
sAlbany == <<"A","l","b","a","n","y">>
sPark == <<"P","a","r","k">>
sRally == <<"R","a","l","l","y">>
sFoo == <<"F","o","o"," ","B","a","r">>
sAcmeCoalition == <<"A","C","M","E"," ","C","o","a","l","i","t","i","o","n",";"," ","O","t","h","e","r"," ","G","r","o","u","p">>
sAcmesoft == <<"A","c","m","e","s","o","f","t">>
sUnspecified == <<"u","n","s","p","e","c","i","f","i","e","d">>
sWindows == <<"w","i","n","d","o","w","s">>
sBlank == <<" ", " ">>

\* the coordinate cells of a located row: 40.0 and -75.0 degrees
LatCell == Num(40000000)
LonCell == Num(-75000000)

\* a row of the source file: dated, sized, located, nothing else reported
BaseRow ==
    [date |-> Num(1), size_mean |-> Num(100), organizations |-> Text(sFoo),
     state |-> Text(sCA), resolved_locality |-> Text(sLA),
     location |-> NaN, locality |-> Text(sLA), title |-> Text(sRally),
     lat |-> LatCell, lon |-> LonCell,
     arrests |-> NaN, participant_injuries |-> NaN, police_injuries |-> NaN,
     participant_deaths |-> NaN, police_deaths |-> NaN, property_damage |-> NaN]

\* widget values that filter nothing
BaseInputs ==
    [start_date |-> NoDate, end_date |-> NoDate, size_filter |-> "all",
     org_search |-> <<>>, state_filter |-> {}, city_filter |-> {},
     any_outcomes_filter |-> {}, national_day |-> NoDate]

NationalDays == {2}     \* the days the National Day of Action dropdown offers

\* dates: the first day, a national day, the last day, missing, unparseable
DateRows ==
    {[BaseRow EXCEPT !.date = c]
        : c \in {Num(1), Num(2), Num(MaxDay), NaN, Text(sUnspecified)}}
DateInputs ==
    {[BaseInputs EXCEPT !.start_date = a, !.end_date = b]
        : a \in {NoDate, 2}, b \in {NoDate, MaxDay}}
    \cup {[BaseInputs EXCEPT !.start_date = 1, !.end_date = 2]}
    \cup {[BaseInputs EXCEPT !.national_day = n, !.start_date = 1, !.end_date = MaxDay]
            : n \in NationalDays}

\* participant counts: a number, missing, text
SizeRows ==
    {[BaseRow EXCEPT !.size_mean = c, !.date = Num(d)]
        : c \in {Num(100), NaN, Text(sUnspecified)}, d \in {1, 2}}
SizeInputs ==
    {[BaseInputs EXCEPT !.size_filter = f, !.start_date = a, !.end_date = a]
        : f \in {"has", "no", "all"}, a \in {NoDate, 2}}

\* organizations
OrgRows ==
    {[BaseRow EXCEPT !.organizations = c]
        : c \in {NaN, Text(sAcmeCoalition), Text(sAcmesoft)}}
SearchAlphabet == {"a", ","}
SearchStrings ==
    UNION {[1..n -> SearchAlphabet] : n \in 0..MaxSearchLen}
    \cup {<<"a","c","m","e",","," ","f","o","o">>, <<" ","A","c","m","e"," ",",">>,
          <<"n","a","n">>, <<"x","y","z",","," ",",">>}
OrgInputs == {[BaseInputs EXCEPT !.org_search = t] : t \in SearchStrings}

\* states and cities
GeoRows ==
    {[BaseRow EXCEPT !.state = st, !.resolved_locality = c]
        : <<st, c>> \in {<<Text(sCA), Text(sLA)>>, <<Text(sNY), Text(sAlbany)>>,
                         <<Text(sNY), Text(sLA)>>, <<NaN, Text(sLA)>>,
                         <<Text(sCA), NaN>>}}
GeoInputs ==
    {[BaseInputs EXCEPT !.state_filter = S, !.city_filter = C]
        : <<S, C>> \in {<<{}, {}>>, <<{sCA}, {}>>, <<{sCA, sNY}, {}>>, <<{}, {sLA}>>,
                        <<{sNY}, {sLA}>>, <<{sCA}, {sLA, sAlbany}>>}}

\* outcomes
OutcomeRows ==
    {BaseRow,
     [BaseRow EXCEPT !.arrests = Num(0), !.property_damage = Text(sBlank)],
     [BaseRow EXCEPT !.arrests = Num(2), !.participant_injuries = Num(3),
                     !.property_damage = Text(sWindows)],
     [BaseRow EXCEPT !.arrests = Text(sUnspecified), !.participant_injuries = Num(0),
                     !.police_injuries = Num(1)],
     [BaseRow EXCEPT !.police_injuries = Num(1), !.participant_deaths = Num(1),
                     !.police_deaths = Num(1)],
     [BaseRow EXCEPT !.police_injuries = Num(0), !.participant_deaths = Num(1),
                     !.police_deaths = Text(sUnspecified)]}
OutcomeInputs ==
    {[BaseInputs EXCEPT !.any_outcomes_filter = F]
        : F \in {{}, {"arrests_any"}, {"property_damage_any"},
                 {"participant_injuries_any", "arrests_any"},
                 {"police_injuries_any", "police_deaths_any"},
                 {"police_deaths_any", "participant_deaths_any"}}}

\* coordinates and places
MapRows ==
    {BaseRow,
     [BaseRow EXCEPT !.location = Text(sPark)],
     [BaseRow EXCEPT !.lat = NaN],
     [BaseRow EXCEPT !.lon = NaN, !.location = Text(sPark)],
     [BaseRow EXCEPT !.lat = NaN, !.lon = NaN, !.date = NaN],
     [BaseRow EXCEPT !.date = NaN],
     [BaseRow EXCEPT !.size_mean = NaN, !.date = Num(MaxDay)]}
MapInputs ==
    {[BaseInputs EXCEPT !.size_filter = f] : f \in {"has", "no", "all"}}
    \cup {[BaseInputs EXCEPT !.start_date = a, !.end_date = MaxDay] : a \in {1, MaxDay}}
    \cup {[BaseInputs EXCEPT !.size_filter = "no", !.start_date = 1, !.end_date = MaxDay]}

\* coinciding coordinates: the same place under three labels, one of them
\* a fraction of the rounding step away, and a place one jitter radius north
JitterRows ==
    {BaseRow,
     [BaseRow EXCEPT !.location = Text(sPark)],
     [BaseRow EXCEPT !.location = Text(sRally), !.lat = Shift(LatCell, 4)],
     [BaseRow EXCEPT !.location = Text(sAlbany), !.lat = Shift(LatCell, JitterRadius)],
     [BaseRow EXCEPT !.lon = NaN, !.location = Text(sFoo)]}
JitterDatasets == UNION {[1..n -> JitterRows] : n \in 0..MaxJitterRows}
JitterInputs ==
    {BaseInputs, [BaseInputs EXCEPT !.size_filter = "no"]}
StInputs ==
    {[BaseInputs EXCEPT !.start_date = 1, !.end_date = MaxDay]}

\* places: a location, a padded one, the text 'nan' for one, a locality
\* only, a state and a date only, nothing at all
sPadded == <<" ", "P", "a", "r", "k", " ">>
sNan == <<"n", "a", "n">>
LabelRows ==
    {[BaseRow EXCEPT !.location = Text(sPadded)],
     [BaseRow EXCEPT !.location = Text(sNan), !.size_mean = NaN],
     [BaseRow EXCEPT !.location = Text(sBlank), !.locality = NaN],
     [BaseRow EXCEPT !.locality = NaN, !.date = Num(2), !.size_mean = NaN],
     [BaseRow EXCEPT !.locality = NaN, !.state = NaN, !.date = NaN],
     [BaseRow EXCEPT !.locality = NaN, !.state = NaN, !.date = NaN, !.size_mean = NaN]}
LabelInputs ==
    {BaseInputs, [BaseInputs EXCEPT !.size_filter = "no"],
     [BaseInputs EXCEPT !.size_filter = "has"]}

\* days: two events on the first day, one with a size and one without on
\* the last, one a rolling window after the first, one without date
SeriesRows ==
    {BaseRow,
     [BaseRow EXCEPT !.date = Num(MaxDay), !.size_mean = NaN],
     [BaseRow EXCEPT !.date = Num(MaxDay), !.size_mean = Num(30)],
     [BaseRow EXCEPT !.date = Num(RollingWindow), !.size_mean = Num(20)],
     [BaseRow EXCEPT !.date = Num(RollingWindow), !.size_mean = NaN],
     [BaseRow EXCEPT !.date = NaN, !.size_mean = Num(500)]}
SeriesInputs ==
    {BaseInputs, [BaseInputs EXCEPT !.size_filter = "no"]}
StSeriesInputs ==
    {[BaseInputs EXCEPT !.start_date = 1, !.end_date = RollingWindow]}
StSeriesOffsets == {<<0, JitterRadius>>}

\* outcomes and sizes for the KPI tiles; a state selection that keeps some
\* rows, one that keeps none
KpiRows ==
    {BaseRow,
     [BaseRow EXCEPT !.arrests = Num(0), !.property_damage = Text(sBlank),
                     !.size_mean = NaN],
     [BaseRow EXCEPT !.arrests = Num(2), !.participant_injuries = Num(3),
                     !.property_damage = Text(sWindows), !.state = Text(sNY)],
     [BaseRow EXCEPT !.arrests = Text(sUnspecified), !.participant_injuries = Num(0),
                     !.size_mean = Num(30), !.date = Num(MaxDay)]}
KpiInputs ==
    {[BaseInputs EXCEPT !.state_filter = S] : S \in {{}, {sCA}, {sNY}}}
StKpiInputs ==
    {[BaseInputs EXCEPT !.start_date = 1, !.end_date = MaxDay, !.state_filter = S]
        : S \in {{}, {sNY}}}

\* crowds large enough to show in the population share, in a state of the
\* lookup, in another, in one that the lookup does not have
sGU == <<"G", "U">>
PopRows ==
    {[BaseRow EXCEPT !.size_mean = Num(50000)],
     [BaseRow EXCEPT !.size_mean = NaN],
     [BaseRow EXCEPT !.size_mean = Num(50000), !.state = Text(sNY)],
     [BaseRow EXCEPT !.size_mean = Num(50000), !.state = Text(sGU)]}
PopInputs ==
    {[BaseInputs EXCEPT !.state_filter = S]
        : S \in {{}, {sCA}, {sCA, StrLower(sNY)}, {sGU}}}

\* a few rows and widget values of every kind
MixedRows ==
    {BaseRow,
     [BaseRow EXCEPT !.date = Num(2), !.size_mean = NaN, !.lat = NaN,
                     !.arrests = Num(2), !.organizations = Text(sAcmesoft)],
     [BaseRow EXCEPT !.date = NaN, !.state = Text(sNY), !.resolved_locality = Text(sAlbany),
                     !.locality = Text(sAlbany), !.size_mean = Num(300),
                     !.property_damage = Text(sWindows), !.organizations = NaN],
     [BaseRow EXCEPT !.location = Text(sPark), !.arrests = Text(sUnspecified)]}
MixedInputs ==
    {BaseInputs,
     [BaseInputs EXCEPT !.size_filter = "has"],
     [BaseInputs EXCEPT !.size_filter = "no"],
     [BaseInputs EXCEPT !.start_date = 1, !.end_date = 1],
     [BaseInputs EXCEPT !.start_date = 2, !.end_date = MaxDay],
     [BaseInputs EXCEPT !.org_search = <<"a","c","m","e">>],
     [BaseInputs EXCEPT !.state_filter = {sNY}],
     [BaseInputs EXCEPT !.state_filter = {sCA}, !.city_filter = {sLA}],
     [BaseInputs EXCEPT !.any_outcomes_filter = {"arrests_any"}],
     [BaseInputs EXCEPT !.any_outcomes_filter = {"property_damage_any"}],
     [BaseInputs EXCEPT !.national_day = 2]}

----------------------------------------------------------------------------
(* Specifications *)

Init == InitWith(MixedRows)
ChangeAny == ChangeFilters(MixedInputs)
Next == PageLoad \/ ChangeAny \/ CacheExpire
Spec == Init /\ [][Next]_vars

InitDate == InitWith(DateRows)
ChangeDate == ChangeFilters(DateInputs)
NextDate == PageLoad \/ ChangeDate \/ CacheExpire
SpecDate == InitDate /\ [][NextDate]_vars

InitSize == InitWith(SizeRows)
ChangeSize == ChangeFilters(SizeInputs)
NextSize == PageLoad \/ ChangeSize \/ CacheExpire
SpecSize == InitSize /\ [][NextSize]_vars

InitOrg == InitWith(OrgRows)
ChangeOrg == ChangeFilters(OrgInputs)
NextOrg == PageLoad \/ ChangeOrg \/ CacheExpire
SpecOrg == InitOrg /\ [][NextOrg]_vars

InitGeo == InitWith(GeoRows)
ChangeGeo == ChangeFilters(GeoInputs)
NextGeo == PageLoad \/ ChangeGeo \/ CacheExpire
SpecGeo == InitGeo /\ [][NextGeo]_vars

InitOutcome == InitWith(OutcomeRows)
ChangeOutcome == ChangeFilters(OutcomeInputs)
NextOutcome == PageLoad \/ ChangeOutcome \/ CacheExpire
SpecOutcome == InitOutcome /\ [][NextOutcome]_vars

InitJitter == InitFrom(JitterDatasets)
ChangeJitter == ChangeFilters(JitterInputs)
NextJitter == PageLoad \/ ChangeJitter \/ CacheExpire
SpecJitter == InitJitter /\ [][NextJitter]_vars

InitStJitter == InitFrom(JitterDatasets)
RunStJitter == StreamlitRun(StInputs)
NextStJitter == RunStJitter
SpecStJitter == InitStJitter /\ [][NextStJitter]_vars

InitLabel == InitWith(LabelRows)
ChangeLabel == ChangeFilters(LabelInputs)
NextLabel == PageLoad \/ ChangeLabel \/ CacheExpire
SpecLabel == InitLabel /\ [][NextLabel]_vars

InitSeries == InitWith(SeriesRows)
ChangeSeries == ChangeFilters(SeriesInputs)
RunStSeries == StreamlitRunWith(StSeriesInputs, StSeriesOffsets)
NextSeries == PageLoad \/ ChangeSeries \/ CacheExpire \/ RunStSeries
SpecSeries == InitSeries /\ [][NextSeries]_vars

InitKpi == InitWith(KpiRows)
ChangeKpi == ChangeFilters(KpiInputs)
RunStKpi == StreamlitRunWith(StKpiInputs, StSeriesOffsets)
NextKpi == PageLoad \/ ChangeKpi \/ CacheExpire \/ RunStKpi
SpecKpi == InitKpi /\ [][NextKpi]_vars

InitPop == InitWith(PopRows)
ChangePop == ChangeFilters(PopInputs)
NextPop == PageLoad \/ ChangePop \/ CacheExpire
SpecPop == InitPop /\ [][NextPop]_vars

InitMap == InitWith(MapRows)
ChangeMap == ChangeFilters(MapInputs)
NextMap == PageLoad \/ ChangeMap \/ CacheExpire
SpecMap == InitMap /\ [][NextMap]_vars

----------------------------------------------------------------------------
(* Properties *)

\* update_all has answered: dff is what filter_data returned for inputs
Answered == out.kind # "none"

\* the index labels of the returned rows: positions in the source file
Kept == {dff[j].idx : j \in 1..Len(dff)}

FileRows == 1..Len(csv)

\* the filters of inputs, other than the named ones, filter nothing
NoDateRange == inputs.start_date = NoDate \/ inputs.end_date = NoDate
OnlyDateRange ==
    [inputs EXCEPT !.start_date = NoDate, !.end_date = NoDate] = BaseInputs
OnlyDateAndSize ==
    [inputs EXCEPT !.start_date = NoDate, !.end_date = NoDate, !.size_filter = "all"]
        = BaseInputs

\* the date of a file row lies in the date range of inputs
InRange(i) ==
    /\ csv[i].date.k = "num"
    /\ inputs.start_date <= csv[i].date.n
    /\ csv[i].date.n <= inputs.end_date

\* C1: the rows filter_data returns are rows of the dataset, each at most
\* once and in dataset order, and the frame returned depends on nothing but
\* the dataset and the parameters: whatever was called before, it is the
\* frame the first call after the load returns for these parameters, so two
\* calls with the same parameters return identical frames.
C1_SubsetAndRepeatable ==
    Answered =>
        /\ \A j \in 1..Len(dff) :
                /\ dff[j].idx \in FileRows
                /\ dff[j].row = LoadRow(csv[dff[j].idx])
        /\ \A j, h \in 1..Len(dff) : j < h => dff[j].idx < dff[h].idx
        /\ dff = FilterBody(LoadData(csv), inputs)

\* a call after the call of the page load, for a national day, whose entry
\* has expired: it returned some rows of the dataset and dropped others
C1_Witness ==
    /\ Answered
    /\ inputs # DefaultInputs(df) /\ inputs.national_day # NoDate
    /\ cache = <<>>
    /\ Len(dff) > 0 /\ Len(dff) < Len(csv)

\* C2: filter_data leaves the loaded dataset as the load made it: after any
\* sequence of calls every value of every column of df is the loaded one.
C2_DatasetUnchanged == df = LoadData(csv)

\* the body of filter_data has run on a file with a textual outcome cell
C2_Witness ==
    /\ Answered /\ cache # <<>>
    /\ \E i \in FileRows : csv[i].arrests.k = "text"

\* C3: with a date range supplied, a returned row has a date, from start to
\* end included; when nothing else filters, every such row is returned.
C3_DateRange ==
    (Answered /\ ~NoDateRange) =>
        /\ \A i \in Kept : InRange(i)
        /\ OnlyDateRange => Kept = {i \in FileRows : InRange(i)}

\* a row dated on the last day of the range is kept, a row without date is not
C3_Witness ==
    /\ Answered /\ ~NoDateRange
    /\ inputs.start_date < inputs.end_date
    /\ \E i \in Kept : csv[i].date.n = inputs.end_date
    /\ \E i \in FileRows \ Kept : csv[i].date.k # "num"

\* C4: when nothing but the date range and the size filter filters, 'has'
\* returns the rows in range whose size_mean is a number, 'no' the rows in
\* range whose size_mean is not, 'all' every row in range: the first two
\* are disjoint and together make the third.
C4_SizeFilter ==
    (Answered /\ OnlyDateAndSize) =>
        LET ranged == {i \in FileRows : NoDateRange \/ InRange(i)}
        IN CASE inputs.size_filter = "has" ->
                    Kept = {i \in ranged : csv[i].size_mean.k = "num"}
             [] inputs.size_filter = "no" ->
                    Kept = {i \in ranged : csv[i].size_mean.k # "num"}
             [] OTHER -> Kept = ranged

\* 'no' returned a row without size and dropped a sized one
C4_Witness ==
    /\ Answered /\ inputs.size_filter = "no"
    /\ Kept # {}
    /\ \E i \in FileRows \ Kept : csv[i].size_mean.k = "num" /\ (NoDateRange \/ InRange(i))

\* C5: the claim as stated: the terms are the trimmed, lowercased, non-empty
\* pieces of the search string; a row is returned iff there is no term or
\* its organizations field, lowercased, contains a term.  A row that has no
\* organizations field contains no term.
C5_OrgSearchAsClaimed ==
    (Answered /\ [inputs EXCEPT !.org_search = <<>>] = BaseInputs) =>
        Kept = {i \in FileRows :
                    \/ OrgTerms(inputs.org_search) = {}
                    \/ /\ csv[i].organizations.k = "text"
                       /\ \E t \in OrgTerms(inputs.org_search) :
                            StrContains(StrLower(csv[i].organizations.s), t)}

\* C6: the state filter returns the rows whose state is selected, the city
\* filter the rows whose resolved locality is selected, an empty selection
\* selects everything, and each applies whatever the other selects.
C6_StateAndCity ==
    (Answered /\ [inputs EXCEPT !.state_filter = {}, !.city_filter = {}] = BaseInputs) =>
        Kept = {i \in FileRows :
                    /\ inputs.state_filter # {} =>
                            (csv[i].state.k = "text" /\ csv[i].state.s \in inputs.state_filter)
                    /\ inputs.city_filter # {} =>
                            (csv[i].resolved_locality.k = "text"
                             /\ csv[i].resolved_locality.s \in inputs.city_filter)}

\* a city of another state than the selected one is selected, and matches
C6_Witness ==
    /\ Answered
    /\ inputs.state_filter = {sNY} /\ inputs.city_filter = {sLA}
    /\ Kept # {} /\ Kept # FileRows

\* the file cell is a number greater than zero
PositiveInFile(c) == c.k = "num" /\ c.n > 0

\* C7: a row is returned iff for every enabled numeric flag its cell is a
\* number greater than zero and, with the property damage flag, its cell
\* is neither missing nor blank; text such as 'unspecified' is no number.
C7_OutcomeFlags ==
    (Answered /\ [inputs EXCEPT !.any_outcomes_filter = {}] = BaseInputs) =>
        Kept = {i \in FileRows : \A f \in inputs.any_outcomes_filter :
                    CASE f = "arrests_any" -> PositiveInFile(csv[i].arrests)
                      [] f = "participant_injuries_any" ->
                            PositiveInFile(csv[i].participant_injuries)
                      [] f = "police_injuries_any" -> PositiveInFile(csv[i].police_injuries)
                      [] f = "participant_deaths_any" ->
                            PositiveInFile(csv[i].participant_deaths)
                      [] f = "police_deaths_any" -> PositiveInFile(csv[i].police_deaths)
                      [] f = "property_damage_any" ->
                            /\ csv[i].property_damage.k = "text"
                            /\ \E h \in 1..Len(csv[i].property_damage.s) :
                                    ~IsSpace(csv[i].property_damage.s[h])}

\* two flags are enabled, a row with both outcomes is returned, a row whose
\* police deaths are 'unspecified' is not
C7_Witness ==
    /\ Answered
    /\ inputs.any_outcomes_filter = {"police_deaths_any", "participant_deaths_any"}
    /\ Kept # {}
    /\ \E i \in FileRows \ Kept : csv[i].police_deaths.k = "text"

KpiNames == {"total_events", "mean_size", "no_injuries", "no_arrests", "no_damage",
             "total_participants", "largest_event", "largest_day", "percent_us_pop"}
ChartNames == {"fig_momentum", "fig_daily", "fig_cumulative", "fig_daily_participant"}

\* C8: when filter_data returns no row, update_all returns the 'no data'
\* outputs and not the outputs of its except branch: the map and every chart
\* are the annotated empty figure, the table has no record, every KPI tile
\* shows the placeholder.
C8_EmptyResult ==
    (Answered /\ dff = <<>>) =>
        /\ out.kind = "no_data"
        /\ out.fig_map = [note |-> "no_data", markers |-> {}]
        /\ \A c \in ChartNames : out[c] = [note |-> "no_data", series |-> <<>>]
        /\ out.table = <<>>
        /\ \A n \in KpiNames : out.kpis[n] = Dash

\* the filters of a page that showed data now match no row of the file
C8_Witness ==
    /\ Answered /\ dff = <<>> /\ csv # <<>>
    /\ inputs # DefaultInputs(df)

Located(rows) == {i \in 1..Len(rows) : ~IsNa(rows[i].lat) /\ ~IsNa(rows[i].lon)}

MarkerTotal(markers) == SumOver([m \in markers |-> m.count], markers)

\* C9: the claim as stated, for a filtered result with a dated row: a row
\* without lat or lon is in no marker but is counted in the event total, in
\* the table and in the daily and the cumulative series.
C9_UnlocatedStillCounted ==
    (Answered /\ Dated(RowsOf(dff)) # {}
              /\ Located(RowsOf(dff)) # 1..Len(dff)) =>
        /\ MarkerTotal(out.fig_map.markers) = Cardinality(Located(RowsOf(dff)))
        /\ out.kpis.total_events = Num(Len(dff))
        /\ Len(out.table) = Len(dff)
        /\ SumOver(out.fig_daily.series, DOMAIN out.fig_daily.series)
                = Cardinality(Dated(RowsOf(dff)))
        /\ \A d \in DOMAIN out.fig_cumulative.series :
                (\A e \in DOMAIN out.fig_cumulative.series : e <= d)
                    => out.fig_cumulative.series[d] = Cardinality(Dated(RowsOf(dff)))

\* C10: the event counts of the markers add up to the number of returned
\* rows that have both lat and lon; a marker counts the located rows of its
\* label, and no two markers have the same label.
C10_MarkerCounts ==
    (Answered /\ out.kind # "error") =>
        /\ MarkerTotal(out.fig_map.markers) = Cardinality(Located(RowsOf(dff)))
        /\ \A m1, m2 \in out.fig_map.markers :
                m1.location_label = m2.location_label => m1 = m2
        /\ \A m \in out.fig_map.markers : m.count >= 1

\* markers next to a filtered row that has no coordinates
C10_Witness ==
    /\ Answered
    /\ out.fig_map.markers # {}
    /\ Located(RowsOf(dff)) # 1..Len(dff)

\* the rows of a frame that share the rounded coordinate of row i
Group(rows, i) == {j \in 1..Len(rows) : CoordKey(rows[j]) = CoordKey(rows[i])}

\* the squared distance of two located rows, and a comparison of two squared
\* lengths up to the rounding of the positions
Dist2(a, b) ==
    (a.lat.n - b.lat.n) * (a.lat.n - b.lat.n) + (a.lon.n - b.lon.n) * (a.lon.n - b.lon.n)
Near(x, y) == 100 * (IF x > y THEN x - y ELSE y - x) <= x + y

\* after rows came the frame moved: a row alone in its group and the first
\* row of a group are unchanged; the other rows of a located group lie at one
\* distance from the first, the first of them due north of it (angle 0), each
\* as far from the next as the last is from the first of them (equal angles)
\* and no two at one place, and nothing but lat and lon is touched
JitterAsClaimed(rows, moved) ==
    /\ Len(moved) = Len(rows)
    /\ \A i \in 1..Len(rows) :
        LET G == Group(rows, i)
            first == CHOOSE j \in G : \A h \in G : j <= h
            others == G \ {first}
            rank(j) == Cardinality({h \in others : h <= j})
            next(j) == CHOOSE h \in others :
                            rank(h) = (rank(j) % Cardinality(others)) + 1
        IN IF i = first THEN moved[i] = rows[i]
           ELSE /\ [moved[i] EXCEPT !.lat = rows[i].lat, !.lon = rows[i].lon] = rows[i]
                /\ (~IsNa(rows[first].lat) /\ ~IsNa(rows[first].lon)) =>
                    /\ ~IsNa(moved[i].lat) /\ ~IsNa(moved[i].lon)
                    /\ \A j \in others :
                            Near(Dist2(moved[i], rows[first]), Dist2(moved[j], rows[first]))
                    /\ rank(i) = 1 =>
                            /\ moved[i].lon = rows[first].lon
                            /\ moved[i].lat.n > rows[first].lat.n
                    /\ \A j \in others :
                            Near(Dist2(moved[i], moved[next(i)]),
                                 Dist2(moved[j], moved[next(j)]))
                    /\ \A j \in others \ {i} : Dist2(moved[i], moved[j]) > 0

DashJitterAsClaimed ==
    (Answered /\ out.kind \in {"full", "no_size"}) =>
        /\ JitterAsClaimed(RowsOf(dff), out.table)
        /\ \A i \in 1..Len(dff) :
                (out.table[i] # dff[i].row /\ ~IsNa(out.table[i].lon)) =>
                    \E j \in Group(RowsOf(dff), i) :
                        /\ \A h \in Group(RowsOf(dff), i) : j <= h
                        /\ Near(Dist2(out.table[i], dff[j].row), JitterRadius * JitterRadius)

Stripped(c) == IF c.k = "text" THEN StrStrip(c.s) ELSE <<>>

\* the location of the row is given, or its locality is, or its state and
\* its date both are, or none of the four is
LabelDecided(r) ==
    \/ Usable(Stripped(r.location))
    \/ Usable(Stripped(r.locality))
    \/ (r.state.k = "text") = (r.date.k = "num")

\* the label C13 gives such a row
ClaimedLabel(r) ==
    IF Usable(Stripped(r.location)) THEN Stripped(r.location)
    ELSE IF Usable(Stripped(r.locality)) THEN Stripped(r.locality)
    ELSE IF r.state.k = "text" THEN r.state.s \o <<",", " ">> \o DateStr(r.date.n)
    ELSE Unknown

LabelAsClaimedButUnknown ==
    (Answered /\ out.kind \in {"full", "no_size"}) =>
        \A i \in Kept :
            (~IsNa(csv[i].lat) /\ ~IsNa(csv[i].lon) /\ LabelDecided(csv[i])
                /\ ClaimedLabel(csv[i]) # Unknown)
            => \E m \in out.fig_map.markers : m.location_label = ClaimedLabel(csv[i])

\* the days of the rows of a frame that have a date
DaysOf(rows) == {rows[i].date.n : i \in Dated(rows)}

\* a series as C14 describes it: an entry for every calendar day from the
\* earliest to the latest date of the rows, the number of rows of that day
CountsEveryDay(series, rows) ==
    /\ \A lo, hi \in DaysOf(rows) :
            ((\A d \in DaysOf(rows) : lo <= d /\ d <= hi)
                => DOMAIN series = lo..hi)
    /\ DaysOf(rows) = {} => series = <<>>
    /\ \A d \in DOMAIN series :
            series[d] = Cardinality({i \in 1..Len(rows) : rows[i].date = Num(d)})

\* C14: on every answer of update_all that shows charts, and on every page of
\* the Streamlit script, the daily event count has one entry for every
\* calendar day from the earliest to the latest filtered date, the number of
\* filtered rows of that day, 0 for a day without events.
C14_DailyCount ==
    /\ (Answered /\ out.kind \in {"full", "no_size"})
            => CountsEveryDay(out.fig_daily.series, RowsOf(dff))
    /\ st_page.kind = "page" => CountsEveryDay(st_page.daily, st_page.dff)

\* update_all has drawn a daily chart with a day without events in it, and
\* so has the Streamlit script
C14_Witness ==
    /\ out.kind = "full"
    /\ \E d \in DOMAIN out.fig_daily.series : out.fig_daily.series[d] = 0
    /\ Len(dff) > 1
    /\ st_page.kind = "page"
    /\ \E d \in DOMAIN st_page.daily : st_page.daily[d] = 0

\* the last day of a series that has one
LastDay(series) == CHOOSE d \in DOMAIN series : \A e \in DOMAIN series : e <= d

\* each value of cum is the value before it plus the count of its day
RunningSum(cum, daily) ==
    /\ DOMAIN cum = DOMAIN daily
    /\ \A d \in DOMAIN cum :
            cum[d] = daily[d] + (IF d - 1 \in DOMAIN cum THEN cum[d - 1] ELSE 0)
    /\ \A d, e \in DOMAIN cum : d <= e => cum[d] <= cum[e]

SumsEveryDay(series, rows) ==
    /\ \A lo, hi \in DaysOf(rows) :
            ((\A d \in DaysOf(rows) : lo <= d /\ d <= hi)
                => DOMAIN series = lo..hi)
    /\ DaysOf(rows) = {} => series = <<>>
    /\ \A d \in DOMAIN series :
            series[d] = NanSum(rows, {i \in 1..Len(rows) : rows[i].date = Num(d)})

\* C16, as stated: the daily participant series update_all returns has an
\* entry for every calendar day from the earliest to the latest filtered
\* date, the sum of size_mean over the rows of that day with null as 0, and
\* 0 for a day without events; so has the Streamlit page.
C16_ParticipantsAsClaimed ==
    /\ (Answered /\ out.kind = "full")
            => SumsEveryDay(out.fig_daily_participant.series, RowsOf(dff))
    /\ st_page.kind = "page" => SumsEveryDay(st_page.participants, st_page.dff)

\* the Streamlit page has the series as C16 describes it
StParticipantsAsClaimed ==
    st_page.kind = "page" => SumsEveryDay(st_page.participants, st_page.dff)

\* the series of update_all has the claimed value on every day that has an
\* event, and no entry for the other days
DashParticipantsOnEventDays ==
    (Answered /\ out.kind = "full") =>
        /\ DOMAIN out.fig_daily_participant.series = DaysOf(RowsOf(dff))
        /\ \A d \in DaysOf(RowsOf(dff)) :
                out.fig_daily_participant.series[d]
                    = NanSum(RowsOf(dff), {i \in 1..Len(dff) : dff[i].row.date = Num(d)})

\* the rows of day d
OnDay(rows, d) == {i \in 1..Len(rows) : rows[i].date = Num(d)}

\* the momentum C17 gives day d: over d and the six days before it, the sum
\* of the sizes of the day times the number of events of the day
ClaimedMomentum(rows, d) ==
    SumOver([e \in (d - RollingWindow + 1)..d |->
                NanSum(rows, OnDay(rows, e)) * Cardinality(OnDay(rows, e))],
            (d - RollingWindow + 1)..d)

\* C17, as stated: every value of the momentum series update_all returns is
\* the sum, over its day and the six calendar days before it, of the day's
\* sum of size_mean times the day's number of filtered events.
C17_MomentumAsClaimed ==
    (Answered /\ out.kind \in {"full", "no_size"}) =>
        \A d \in DOMAIN out.fig_momentum.series :
            out.fig_momentum.series[d] = Num(ClaimedMomentum(RowsOf(dff), d))

\* what the series holds: no value on the first six days of the series, and
\* from the seventh on the claimed sum with the events without a size left
\* out of the number of events
MomentumOfSizedEvents ==
    (Answered /\ out.kind = "full") =>
        LET sized == SelectSeq(RowsOf(dff), LAMBDA r : r.size_mean.k = "num")
            series == out.fig_momentum.series
        IN /\ DOMAIN series = DOMAIN DailyCount(sized)
           /\ \A d \in DOMAIN series :
                IF d - RollingWindow + 1 \in DOMAIN series
                THEN series[d] = Num(ClaimedMomentum(sized, d))
                ELSE series[d] = NaN

\* the Largest Day of Action tile is not below the Largest Single Event tile
DayNotBelowEvent ==
    /\ out.kpis.largest_day.k = "num"
    /\ out.kpis.largest_day.n >= out.kpis.largest_event.n

\* C18, as stated: on every answer of update_all with KPIs, for every widget
\* values, when some filtered event has a size_mean, largestDay is at least
\* largestEvent.
C18_LargestDayAsClaimed ==
    (Answered /\ out.kind = "full"
        /\ \E j \in 1..Len(dff) : dff[j].row.size_mean.k = "num")
    => DayNotBelowEvent

\* it is so when every filtered event with a size has a date
LargestDayOfDatedEvents ==
    (Answered /\ out.kind = "full"
        /\ (\E j \in 1..Len(dff) : dff[j].row.size_mean.k = "num")
        /\ \A j \in 1..Len(dff) :
                dff[j].row.size_mean.k = "num" => ~IsNa(dff[j].row.date))
    => DayNotBelowEvent

\* the tile t, in units of 1 / decimals of a percent, shows 100 * count /
\* total to the last digit it prints, and lies between 0 and 100 percent
ShowsShare(t, count, total, decimals) ==
    /\ t.k = "num"
    /\ 0 <= t.n /\ t.n <= 100 * decimals
    /\ LET diff == t.n * total - 100 * decimals * count
       IN 2 * diff <= total /\ -2 * diff <= total

\* the filtered rows whose field col is null or zero
NoneOf(col) == {j \in 1..Len(dff) : IsNa(dff[j].row[col]) \/ dff[j].row[col] = Num(0)}

C19_WitnessNoEvent ==
    /\ Answered /\ Len(dff) = 0 /\ Len(csv) > 0
    /\ st_page.kind = "page" /\ Len(st_page.dff) = 0

\* the population of a selected state in the lookup, 0 when it has none
PopulationOf(st) ==
    IF \E abbr \in DOMAIN STATE_POP : StrLower(abbr) = StrLower(st)
    THEN STATE_POP[CHOOSE abbr \in DOMAIN STATE_POP : StrLower(abbr) = StrLower(st)]
    ELSE 0

\* the denominator C20 gives a state selection
ClaimedDenominator(selected) ==
    LET found == {st \in selected : PopulationOf(st) > 0}
    IN IF found = {} THEN US_POPULATION
       ELSE SumOver([st \in found |-> PopulationOf(st)], found)

C20_WitnessNotFound ==
    /\ out.kind = "full"
    /\ inputs.state_filter = {sGU}
    /\ out.kpis.percent_us_pop.n > 0

----------------------------------------------------------------------------
(* C21: the memoized calls *)

\* texts longer than a printed column: a common start, then one letter
LongText(last) == [i \in 1..(MaxColWidth + 1) |-> IF i > MaxColWidth THEN last ELSE "x"]

\* two events that differ in what follows the fiftieth character of their
\* organizations and of their location, and one with short texts
MemoRows ==
    {BaseRow,
     [BaseRow EXCEPT !.organizations = Text(LongText("a")), !.location = Text(LongText("1"))],
     [BaseRow EXCEPT !.organizations = Text(LongText("b")), !.location = Text(LongText("2"))]}
MemoInputs ==
    {[BaseInputs EXCEPT !.org_search = t] : t \in {<<>>, <<"a">>, <<"b">>}}

InitMemo == InitWith(MemoRows)
ChangeMemo == ChangeFilters(MemoInputs)
NextMemo == PageLoad \/ ChangeMemo \/ CacheExpire
SpecMemo == InitMemo /\ [][NextMemo]_vars

\* C21: memoization does not change what a request shows: the filtered rows
\* are the ones the body of filter_data computes for the widget values, and
\* the markers are the ones the body of aggregate_events_for_map computes for
\* the jittered, labelled frame of this request
C21_MemoTransparent ==
    Answered =>
        /\ dff = FilterBody(CoerceFrame(df), inputs)
        /\ out.kind \in {"full", "no_size"} =>
             out.fig_map.markers
                = AggregateEventsForMap(MapFrame(RowsOf(dff), inputs))

\* the part of C21 that holds: the frame filter_data returns, stored or
\* computed, is the one its body computes for the widget values
FilterMemoTransparent ==
    Answered => dff = FilterBody(CoerceFrame(df), inputs)

----------------------------------------------------------------------------
(* C22: concurrent requests *)

\* two source files of two events each, found by the searches "a" and "b":
\* one with the long texts of MemoRows, one with short texts
ConcFiles ==
    {<<[BaseRow EXCEPT !.organizations = Text(LongText("a")),
                       !.location = Text(LongText("1"))],
       [BaseRow EXCEPT !.organizations = Text(LongText("b")),
                       !.location = Text(LongText("2"))]>>,
     <<[BaseRow EXCEPT !.organizations = Text(<<"a">>), !.location = Text(<<"1">>)],
       [BaseRow EXCEPT !.organizations = Text(<<"b">>), !.location = Text(<<"2">>),
                       !.arrests = Text(sUnspecified)]>>}
ConcInputs ==
    {[BaseInputs EXCEPT !.org_search = t] : t \in {<<"a">>, <<"b">>}}

InitConc == InitFrom(ConcFiles)
RunRequests == ReqStep(ConcInputs)
NextConc == RunRequests \/ CacheExpire
SpecConc == InitConc /\ [][NextConc]_vars

\* what a request with the widget values p returns when it runs alone
AloneFrame(p) == FilterBody(CoerceFrame(LoadData(csv)), p)
AloneMarkers(p) ==
    LET rows == RowsOf(AloneFrame(p))
    IN IF AllNull(rows, "lat") \/ AllNull(rows, "lon") THEN {}
       ELSE AggregateEventsForMap(MapFrame(rows, p))

ReturnsAsAlone ==
    \A w \in Workers :
        reqs[w].pc = "done" =>
            /\ reqs[w].frame = AloneFrame(reqs[w].p)
            /\ reqs[w].markers = AloneMarkers(reqs[w].p)

StoresTheSameValue ==
    \A w \in Workers :
        /\ (reqs[w].pc = "store" /\ Cached(FilterKey(reqs[w].p)))
              => CacheGet(FilterKey(reqs[w].p)) = reqs[w].frame
        /\ reqs[w].pc = "agg" =>
              LET frame == MapFrame(RowsOf(reqs[w].frame), reqs[w].p)
              IN AggCached(AggKey(frame))
                    => AggGet(AggKey(frame)) = AggregateEventsForMap(frame)

\* C22: under every interleaving of the requests of the threads, on the shared
\* df and the shared cache, each request returns what it returns when it runs
\* alone, and two computations for the same key store the same value
C22_ConcurrentRequests == ReturnsAsAlone /\ StoresTheSameValue

\* no text of the source file is longer than a printed column
ShortTexts ==
    \A i \in 1..Len(csv) : \A f \in DOMAIN csv[i] : Len(csv[i][f].s) <= MaxColWidth

\* the part of C22 that holds: the interleaving changes no filtered frame, and
\* no markers of a source file whose frames print in full
InterleavingHarmless ==
    /\ \A w \in Workers :
          reqs[w].pc \in {"store", "guard", "agg", "done"}
              => reqs[w].frame = AloneFrame(reqs[w].p)
    /\ ShortTexts => C22_ConcurrentRequests

----------------------------------------------------------------------------
(* C23: the city options *)

CityStates == SUBSET {sCA, sNY}

InitCity == InitWith(GeoRows)
ChangeStates == SelectStates(CityStates)
NextCity == ChangeStates \/ SelectCities
SpecCity == InitCity /\ [][NextCity]_vars

\* the distinct non-null cities of the rows of the source file whose state is
\* selected
CitiesOfSelectedStates ==
    {csv[i].resolved_locality.s :
        i \in {j \in FileRows :
                 /\ csv[j].state.k = "text"
                 /\ csv[j].state.s \in inputs.state_filter
                 /\ csv[j].resolved_locality.k # "empty"}}

\* C23: after any sequence of changes of the state selection the city options
\* are the distinct non-null cities of the rows whose state is selected,
\* every selected city is one of the options, and without a selected state
\* there is no option and no selected city
C23_CityOptions ==
    /\ city_options = CitiesOfSelectedStates
    /\ inputs.city_filter \subseteq city_options
    /\ inputs.state_filter = {} => (city_options = {} /\ inputs.city_filter = {})

\* a state is selected, one of its cities is selected, and a row of another
\* state has a city
C23_Witness ==
    /\ inputs.state_filter = {sNY}
    /\ inputs.city_filter # {}
    /\ \E i \in FileRows : csv[i].state.k = "text" /\ csv[i].state.s = sCA
                           /\ csv[i].resolved_locality.k # "empty"

----------------------------------------------------------------------------
(* C24: a source file that lacks a column *)

\* events with and without a location, and with outcomes
MissingRows ==
    {BaseRow,
     [BaseRow EXCEPT !.location = Text(sPadded)],
     [BaseRow EXCEPT !.arrests = Num(2), !.police_deaths = Num(1)]}
MissingInputs ==
    {[BaseInputs EXCEPT !.any_outcomes_filter = O]
        : O \in {{}, {"arrests_any"}, {"police_deaths_any"}}}
\* a required column, a column only a filter reads, a column of the label
MissingColumns == {"arrests", "police_deaths", "location"}

InitMissing == InitOn(Datasets(MissingRows), {AllColumns \ {c} : c \in MissingColumns})
ChangeMissing == ChangeFilters(MissingInputs)
NextMissing == PageLoad \/ ChangeMissing \/ CacheExpire
SpecMissing == InitMissing /\ [][NextMissing]_vars

\* the markers of the rows, labelled from the cells they have
MarkersOfCells(rows, p) ==
    LET jittered == JitterCoords(rows)
    IN AggregateEventsForMap(
          [i \in 1..Len(rows) |->
              [label |-> IF p.size_filter = "no" THEN BestLocation(jittered[i])
                         ELSE VectorLabel(jittered[i]),
               row |-> jittered[i]]])

\* C24: when the loaded dataset lacks an expected column, update_all returns
\* no error result: it returns the map, the charts and the KPIs of the rows
\* that the filter keeps when the cells of the column are all null
C24_MissingAsNull ==
    (Answered /\ columns # AllColumns) =>
        /\ out.kind # "error"
        /\ dff = FilterBody(CoerceFrame(df), inputs)
        /\ out.kind \in {"full", "no_size"} =>
              out.fig_map.markers = MarkersOfCells(RowsOf(dff), inputs)

\* the part of C24 that holds: a dataset that lacks a column no filter of the
\* request reads, and that is neither required nor part of the label
MissingUnreadColumn ==
    (Answered /\ columns = AllColumns \ {"police_deaths"}
        /\ "police_deaths_any" \notin inputs.any_outcomes_filter) =>
        /\ out.kind # "error"
        /\ dff = FilterBody(CoerceFrame(df), inputs)
        /\ out.kind \in {"full", "no_size"} =>
              out.fig_map.markers = MarkersOfCells(RowsOf(dff), inputs)

----------------------------------------------------------------------------
(* C25: the download *)

InitDownload == InitWith(KpiRows)
ChangeDownload == ChangeFilters(KpiInputs)
NextDownload == PageLoad \/ ChangeDownload \/ CacheExpire \/ ClickDownload
SpecDownload == InitDownload /\ [][NextDownload]_vars

\* C25: a click on the download button sends a CSV file, a header row and
\* the rows of the full dataset with the choice 'full', the rows of the
\* currently filtered subset with the choice 'filtered', also when the filter
\* matches no row
C25_Download ==
    download.kind # "none" =>
        /\ download.kind = "file"
        /\ download.choice = "full" => download.rows = df
        /\ download.choice = "filtered" => download.rows = RowsOf(dff)

\* what the code does instead: no click sends a file
DownloadSendsNothing == download.kind \in {"none", "no_update", "error"}

----------------------------------------------------------------------------
(* C26: the events of a marker *)

\* events at one place, under one label or two
ClickRows ==
    {BaseRow, [BaseRow EXCEPT !.size_mean = Num(30)],
     [BaseRow EXCEPT !.location = Text(sPark)]}
ClickInputs == {BaseInputs, [BaseInputs EXCEPT !.size_filter = "no"]}

InitClick == InitWith(ClickRows)
ChangeClick == ChangeFilters(ClickInputs)
NextClick == PageLoad \/ ChangeClick \/ CacheExpire \/ ClickMarker
SpecClick == InitClick /\ [][NextClick]_vars

\* the positions of the filtered rows whose location label is l
RowsLabelled(l) ==
    LET frame == MapFrame(RowsOf(dff), inputs)
    IN {i \in 1..Len(frame) : frame[i].label = l}

\* the count on the marker with the label l
CountOnMarker(l) ==
    LET m == CHOOSE x \in out.fig_map.markers : x.location_label = l
    IN m.count

\* C26: a click on the marker with the label L lists the currently filtered
\* events whose location label is L, as many as the count on the marker
C26_EventsOfMarker ==
    [][details' # details =>
          /\ details'.kind = "events"
          /\ details'.listed = RowsLabelled(details'.click.text)
          /\ Cardinality(details'.listed) = CountOnMarker(details'.click.text)]_vars

\* what the code does instead: it lists the events at the rounded
\* coordinates of the marker, whatever their label
ListsEventsAtThePoint ==
    [][details' # details =>
          details'.listed =
              {i \in 1..Len(out.table) :
                  /\ RoundCoord(out.table[i].lat) = RoundCoord(details'.click.lat)
                  /\ RoundCoord(out.table[i].lon) = RoundCoord(details'.click.lon)}]_vars

----------------------------------------------------------------------------
(* C27: the file of the manual submissions *)

\* the rows of two forms
FormRows ==
    {<<"a@x.org", "2025-06-14", "LA", "Rally", "march", "", "30">>,
     <<"", "", "", "", "", "", "">>}

InitSubmit == InitFrom(ConcFiles)
Submit == SubmitStep(FormRows)
NextSubmit == Submit
SpecSubmit == InitSubmit /\ [][NextSubmit]_vars

\* how often the line l stands in the lines
Occurrences(lines, l) == Cardinality({i \in 1..Len(lines) : lines[i] = l})

\* the rows of all the calls that returned
NumReturned(l) ==
    LET RECURSIVE count(_)
        count(W) == IF W = {} THEN 0
                    ELSE LET w == CHOOSE x \in W : TRUE
                         IN Occurrences(subs[w].returned, l) + count(W \ {w})
    IN count(Workers)

NoCallRunning == \A w \in Workers : subs[w].pc = "idle"

\* every returned call has its row in the file, once
OneRowPerSubmission ==
    \A l \in FormRows : Occurrences(manual_csv, l) = NumReturned(l)

\* C27: once the calls of submit_event have returned, sequential or
\* interleaved, the file is one header row followed by one data row per call
C27_OneHeaderThenRows ==
    (NoCallRunning /\ manual_csv # <<>>) =>
        /\ manual_csv[1] = Headers
        /\ Occurrences(manual_csv, Headers) = 1
        /\ OneRowPerSubmission

\* what does hold: the file starts with the header, no row is lost or
\* doubled, and there are no more headers than threads
RowsKeptHeaderFirst ==
    (NoCallRunning /\ manual_csv # <<>>) =>
        /\ manual_csv[1] = Headers
        /\ Occurrences(manual_csv, Headers) <= Cardinality(Workers)
        /\ OneRowPerSubmission

----------------------------------------------------------------------------
(* C28: the links to the events missing participant counts *)

NoSizeRow == [BaseRow EXCEPT !.size_mean = NaN, !.title = Text(<<"M">>)]
LinkFiles == {<<BaseRow, NoSizeRow>>, <<BaseRow>>}
LinkInputs == {[BaseInputs EXCEPT !.size_filter = f] : f \in {"all", "has", "no"}}

InitLinks == InitFrom(LinkFiles)
ChangeLinkFilters == ChangeFilters(LinkInputs)
ClickLinks == \E t \in Tabs : ClickLink(t)
SelectTabs == \E t \in Tabs : SelectTab(t)
NextLinks ==
    \/ PageLoad \/ ChangeLinkFilters \/ UpdateMissingCountMessage
    \/ ClickLinks \/ SelectTabs \/ WriteLinkStore
SpecLinks == InitLinks /\ [][NextLinks]_vars

StoreIsReset == pending = <<>> => link_store = 0

----------------------------------------------------------------------------
(* C29: the additional events missing participant counts *)

AdditionalRows ==
    {BaseRow, [BaseRow EXCEPT !.date = Num(2)],
     NoSizeRow, [NoSizeRow EXCEPT !.date = Num(2)]}
AdditionalInputs ==
    {[BaseInputs EXCEPT !.size_filter = "has", !.national_day = n,
                        !.start_date = 1, !.end_date = MaxDay] : n \in {NoDate, 2}}
    \cup {[BaseInputs EXCEPT !.start_date = 1, !.end_date = MaxDay]}

InitAdditional == InitWith(AdditionalRows)
ChangeAdditional == ChangeFilters(AdditionalInputs)
NextAdditional ==
    PageLoad \/ ChangeAdditional \/ UpdateMissingCountMessage \/ CacheExpire
SpecAdditional == InitAdditional /\ [][NextAdditional]_vars

\* the callback has written a message under the size filter "has"
MessageWrittenForHas ==
    /\ missing_msg' # missing_msg
    /\ inputs.size_filter = "has"
    /\ missing_msg'.text \in {"additional_missing", "all_have"}

\* the rows the filter parameters p select
NumSelected(p) == Len(FilterBody(CoerceFrame(df), p))

\* C29: with the size filter "has", the number of additional events missing
\* participant counts in the message is the number of rows the current
\* filter parameters select once the size filter alone is changed to "no"
C29_AdditionalMissing ==
    [][MessageWrittenForHas =>
          missing_msg'.missing = NumSelected([inputs EXCEPT !.size_filter = "no"])]_vars

\* what the message counts: the rows of the other parameters without the
\* national day of action
CountsWithoutNationalDay ==
    [][MessageWrittenForHas =>
          missing_msg'.missing = NumSelected(MissingArgs(inputs))]_vars

----------------------------------------------------------------------------
(* C30: the 3.5% check *)

\* 3.5% of the national population, as a number of participants
NationalThreshold == 7 * (US_POPULATION \div 200)

ThresholdRows30 ==
    {[BaseRow EXCEPT !.size_mean = Num(NationalThreshold)],
     [BaseRow EXCEPT !.size_mean = Num(NationalThreshold - 1), !.date = Num(2)],
     [BaseRow EXCEPT !.size_mean = Num(1), !.date = Num(2)],
     NoSizeRow}
ThresholdInputs ==
    {[BaseInputs EXCEPT !.size_filter = f, !.start_date = 1, !.end_date = b]
        : f \in {"all", "no"}, b \in {1, MaxDay}}

InitThreshold == InitWith(ThresholdRows30)
ChangeThreshold == ChangeFilters(ThresholdInputs)
NextThreshold == PageLoad \/ ChangeThreshold \/ UpdateThresholdRow \/ CacheExpire
SpecThreshold == InitThreshold /\ [][NextThreshold]_vars

\* total is at least 3.5% of pop_denom, in whole numbers: 7/200 of it
AtLeastShare(total, pop_denom) ==
    IF pop_denom % 200 = 0 THEN total >= 7 * (pop_denom \div 200)
    ELSE total > 7 * (pop_denom \div 200) + ((7 * (pop_denom % 200)) \div 200)

\* the largest single-day total of the filtered rows
FilteredLargestDay == LargestDay(RowsOf(dff))

NoResultExpected == Len(dff) = 0 \/ inputs.size_filter = "no"

\* C30: the check reports met exactly when the largest single-day total of
\* the filtered rows is defined and at least 3.5% of the denominator of the
\* percent tile; there is no result when no row matches or the size filter
\* is "no"
C30_ThreePointFive ==
    out.kind # "none" =>
        /\ out.three_point_five.result =>
              /\ out.three_point_five.population = PopDenom(inputs.state_filter)
              /\ out.three_point_five.met <=>
                    /\ FilteredLargestDay.k = "num"
                    /\ AtLeastShare(FilteredLargestDay.n, PopDenom(inputs.state_filter))
        /\ NoResultExpected => ~out.three_point_five.result

\* what holds: there is no result in the two cases, the denominator is the
\* one of the percent tile, and met is reported for every total above 3.5%
\* and for none below
MetButAtTheThreshold ==
    out.kind # "none" =>
        /\ NoResultExpected => ~out.three_point_five.result
        /\ out.three_point_five.result =>
              /\ out.three_point_five.population = PopDenom(inputs.state_filter)
              /\ out.three_point_five.met =>
                    /\ FilteredLargestDay.k = "num"
                    /\ AtLeastShare(FilteredLargestDay.n, PopDenom(inputs.state_filter))
              /\ (FilteredLargestDay.k = "num"
                  /\ AtLeastShare(FilteredLargestDay.n - 1, PopDenom(inputs.state_filter)))
                    => out.three_point_five.met

\* the row shows nothing when the store holds no result
RowFollowsTheCheck ==
    [][threshold' # threshold =>
          /\ ~out.three_point_five.result => threshold'.kind = "blank"
          /\ threshold'.kind = "row" => threshold'.met = out.three_point_five.met]_vars

====
